---- MODULE Spec2Model ----
(***************************************************************************)
(* Pose-graph synchronisation (src/spanning_tree.py) and RANSAC Sim(3)     *)
(* alignment (src/afp/utils/ransac.py) as state machines.                  *)
(*                                                                         *)
(* Numbers are exact: rotations are 2x2 integer matrices (multiples of 90  *)
(* degrees), translations and scales are rationals <<n, d>> in lowest      *)
(* terms.  An optional value is None (<<>>) or Some(x) (<<x>>).            *)
(***************************************************************************)
EXTENDS Integers, Sequences, FiniteSets, TLC

\* Largest node id of the enumerated edge dictionaries.
MaxNode == 3

\* Largest number of keys of the enumerated edge dictionaries: enough for a
\* spanning tree over all the nodes 0..MaxNode.
MaxEdges == MaxNode

None == <<>>
Some(x) == <<x>>

Range(s) == {s[i] : i \in DOMAIN s}

Min(S) == CHOOSE m \in S : \A x \in S : m <= x

Max(S) == CHOOSE m \in S : \A x \in S : x <= m

Abs(x) == IF x < 0 THEN -x ELSE x

\* ------------------------------------------------------------------------
\* Exact arithmetic: rationals <<n, d>>, d > 0, gcd(n, d) = 1.

RECURSIVE GCD(_, _)
GCD(a, b) == IF b = 0 THEN a ELSE GCD(b, a % b)

RatNorm(n, d) ==
    LET g == GCD(Abs(n), Abs(d))
        sg == IF d < 0 THEN -1 ELSE 1
    IN  <<(sg * n) \div g, (sg * d) \div g>>

RInt(i) == <<i, 1>>

RAdd(x, y) == RatNorm(x[1] * y[2] + y[1] * x[2], x[2] * y[2])

RMul(x, y) == RatNorm(x[1] * y[1], x[2] * y[2])

RNeg(x) == <<-x[1], x[2]>>

RInv(x) == RatNorm(x[2], x[1])

\* ------------------------------------------------------------------------
\* 2x2 matrices <<a, b, c, d>> = [[a, b], [c, d]] with integer entries.

Eye2 == <<1, 0, 0, 1>>

Zeros2 == <<RInt(0), RInt(0)>>

\* numpy: M.T
Transpose(M) == <<M[1], M[3], M[2], M[4]>>

\* numpy: A @ B
MatMul(A, B) ==
    <<A[1] * B[1] + A[2] * B[3], A[1] * B[2] + A[2] * B[4],
      A[3] * B[1] + A[4] * B[3], A[3] * B[2] + A[4] * B[4]>>

\* numpy: M @ v for a rational 2-vector v
MatVec(M, v) ==
    <<RAdd(RMul(RInt(M[1]), v[1]), RMul(RInt(M[2]), v[2])),
      RAdd(RMul(RInt(M[3]), v[1]), RMul(RInt(M[4]), v[2]))>>

VecAdd(u, v) == <<RAdd(u[1], v[1]), RAdd(u[2], v[2])>>

VecScale(k, v) == <<RMul(k, v[1]), RMul(k, v[2])>>

VecNeg(v) == <<RNeg(v[1]), RNeg(v[2])>>

\* rotation_utils.rotmat2d for multiples of 90 degrees:
\* [[cos, -sin], [sin, cos]].
rotmat2d(deg) ==
    LET q == (deg \div 90) % 4
    IN  CASE q = 0 -> <<1, 0, 0, 1>>
          [] q = 1 -> <<0, -1, 1, 0>>
          [] q = 2 -> <<-1, 0, 0, -1>>
          [] q = 3 -> <<0, 1, -1, 0>>

\* ------------------------------------------------------------------------
\* Sim2 (argoverse.utils.sim2.Sim2): the map p -> s * (R p + t).

Sim2(R, t, s) == [R |-> R, t |-> t, s |-> s]

Sim2Identity == Sim2(Eye2, Zeros2, RInt(1))

\* Sim2.inverse() with the translation left unscaled: Sim2(R.T, -R.T @ t, 1 / s)
Sim2InverseUnscaled(S) ==
    Sim2(Transpose(S.R), VecNeg(MatVec(Transpose(S.R), S.t)), RInv(S.s))

\* Sim2.inverse(): Sim2(R.T, -R.T @ (s * t), 1 / s)
Sim2Inverse(S) ==
    LET Rt == Transpose(S.R)
    IN  Sim2(Rt, VecNeg(MatVec(Rt, VecScale(S.s, S.t))), RInv(S.s))

\* Sim2.compose(): self.compose(S) = Sim2(R1 @ R2, R1 @ t2 + t1 / s2, s1 * s2)
Sim2Compose(S1, S2) ==
    Sim2(MatMul(S1.R, S2.R),
         VecAdd(MatVec(S1.R, S2.t), VecScale(RInv(S2.s), S1.t)),
         RMul(S1.s, S2.s))

\* ------------------------------------------------------------------------
\* The graph calls of the synchronizer.  es is the sequence of the edge
\* dictionary's keys in insertion order (a Python dict iterates in it).

\* nx.Graph.add_edges_from: nodes in order of first appearance.
RECURSIVE NodeOrderFrom(_, _, _)
NodeOrderFrom(es, i, acc) ==
    IF i > Len(es) THEN acc
    ELSE LET u == es[i][1]
             v == es[i][2]
             a1 == IF u \in Range(acc) THEN acc ELSE Append(acc, u)
             a2 == IF v \in Range(a1) THEN a1 ELSE Append(a1, v)
         IN  NodeOrderFrom(es, i + 1, a2)

NodeOrder(es) == NodeOrderFrom(es, 1, <<>>)

\* G.adj[x]: the neighbours of x in the order their edges were added.
RECURSIVE AdjFrom(_, _, _, _)
AdjFrom(es, i, x, acc) ==
    IF i > Len(es) THEN acc
    ELSE LET u == es[i][1]
             v == es[i][2]
             a1 == IF u = x /\ v \notin Range(acc) THEN Append(acc, v) ELSE acc
             a2 == IF v = x /\ u \notin Range(a1) THEN Append(a1, u) ELSE a1
         IN  AdjFrom(es, i + 1, x, a2)

Adj(es, x) == AdjFrom(es, 1, x, <<>>)

\* nx _plain_bfs: the set of nodes reachable from the nodes of S.
RECURSIVE Grow(_, _)
Grow(es, S) ==
    LET N == S \cup {e[2] : e \in {f \in Range(es) : f[1] \in S}}
               \cup {e[1] : e \in {f \in Range(es) : f[2] \in S}}
    IN  IF N = S THEN S ELSE Grow(es, N)

\* nx.connected_components: one component per not yet seen node, in node order.
RECURSIVE ComponentsFrom(_, _, _, _, _)
ComponentsFrom(es, order, i, seen, acc) ==
    IF i > Len(order) THEN acc
    ELSE IF order[i] \in seen THEN ComponentsFrom(es, order, i + 1, seen, acc)
    ELSE LET c == Grow(es, {order[i]})
         IN  ComponentsFrom(es, order, i + 1, seen \cup c, Append(acc, c))

connected_components(es) == ComponentsFrom(es, NodeOrder(es), 1, {}, <<>>)

\* The later component kept on a tie.
LargerOrEqualCC(best, c) == IF Cardinality(c) >= Cardinality(best) THEN c ELSE best

\* max(components, key=len) keeps the later one only when strictly larger.
LargerCC(best, c) == IF Cardinality(c) > Cardinality(best) THEN c ELSE best

\* Python max(..., key=len): the first component of maximal size.
RECURSIVE MaxByLen(_, _, _)
MaxByLen(ccs, i, best) ==
    IF i > Len(ccs) THEN best
    ELSE MaxByLen(ccs, i + 1, LargerCC(best, ccs[i]))

\* gtsfm graph_utils.get_nodes_in_largest_connected_component(edges)
get_nodes_in_largest_connected_component(es) ==
    IF Len(es) = 0 THEN {}
    ELSE LET ccs == connected_components(es)
         IN  MaxByLen(ccs, 2, ccs[1])

\* Python sorted(): ascending list of a set of integers.
RECURSIVE sorted(_)
sorted(S) ==
    IF S = {} THEN <<>>
    ELSE LET m == Min(S) IN <<m>> \o sorted(S \ {m})

\* ------------------------------------------------------------------------
\* nx.shortest_path(G, source, target) without weights: networkx's
\* bidirectional breadth-first search.  pred / succ are functions from the
\* discovered nodes to their parent, NoParent for the search's root.

NoParent == 0 - 1

\* The entry of a parent map for a node the search has not discovered.
Unseen == 0 - 2

\* The (v, w) visits of one level: for v in this_level: for w in G.adj[v].
RECURSIVE LevelVisits(_, _, _)
LevelVisits(es, level, i) ==
    IF i > Len(level) THEN <<>>
    ELSE LET nb == Adj(es, level[i])
         IN  [j \in 1..Len(nb) |-> <<level[i], nb[j]>>]
             \o LevelVisits(es, level, i + 1)

\* One level of one direction: mine is the map this direction extends,
\* other the opposite one; stops at the first w the other side has seen.
\* A map holds node x's parent at position x + 1.
RECURSIVE ExpandLevel(_, _, _, _, _)
ExpandLevel(visits, i, mine, fringe, other) ==
    IF i > Len(visits) THEN [found |-> FALSE, w |-> NoParent, mine |-> mine, fringe |-> fringe]
    ELSE LET v == visits[i][1]
             w == visits[i][2]
             new == mine[w + 1] = Unseen
             mine2 == IF new THEN [mine EXCEPT ![w + 1] = v] ELSE mine
             fringe2 == IF new THEN Append(fringe, w) ELSE fringe
         IN  IF other[w + 1] # Unseen
             THEN [found |-> TRUE, w |-> w, mine |-> mine2, fringe |-> fringe2]
             ELSE ExpandLevel(visits, i + 1, mine2, fringe2, other)

\* _bidirectional_pred_succ's loop: the smaller fringe is expanded, the
\* forward one on a tie.
RECURSIVE BidirSearch(_, _, _, _, _)
BidirSearch(es, pred, succ, ff, rf) ==
    IF ff = <<>> \/ rf = <<>> THEN [found |-> FALSE, w |-> NoParent, pred |-> pred, succ |-> succ]
    ELSE IF Len(ff) <= Len(rf)
    THEN LET r == ExpandLevel(LevelVisits(es, ff, 1), 1, pred, <<>>, succ)
         IN  IF r.found THEN [found |-> TRUE, w |-> r.w, pred |-> r.mine, succ |-> succ]
             ELSE BidirSearch(es, r.mine, succ, r.fringe, rf)
    ELSE LET r == ExpandLevel(LevelVisits(es, rf, 1), 1, succ, <<>>, pred)
         IN  IF r.found THEN [found |-> TRUE, w |-> r.w, pred |-> pred, succ |-> r.mine]
             ELSE BidirSearch(es, pred, r.mine, ff, r.fringe)

\* Follow a parent map from w to its root: <<w, parent(w), ..., root>>.
RECURSIVE Chain(_, _)
Chain(m, w) == IF w = NoParent THEN <<>> ELSE <<w>> \o Chain(m, m[w + 1])

Reverse(s) == [i \in 1..Len(s) |-> s[Len(s) + 1 - i]]

\* The parent map in which only root is discovered.
RootedAt(es, root) ==
    [x \in 1..(Max({Max({es[i][1], es[i][2]}) : i \in DOMAIN es}) + 1) |->
        IF x - 1 = root THEN NoParent ELSE Unseen]

\* nx.bidirectional_shortest_path: [source, ..., w, ..., target].
shortest_path(es, source, target) ==
    IF source = target THEN <<source>>
    ELSE LET r == BidirSearch(es, RootedAt(es, source), RootedAt(es, target),
                              <<source>>, <<target>>)
         IN  Reverse(Chain(r.pred, r.w)) \o Tail(Chain(r.succ, r.w))

\* ------------------------------------------------------------------------
\* The edge dictionaries the synchronizer is called on.

Nodes == 0..MaxNode

\* Canonical keys (i1, i2), i1 < i2.
Pairs == {<<i, j>> : i \in Nodes, j \in Nodes} \cap {p \in Nat \X Nat : p[1] < p[2]}

\* The keys of S in ascending (lexicographic) order.
RECURSIVE Ascending(_)
Ascending(S) ==
    IF S = {} THEN <<>>
    ELSE LET k == CHOOSE x \in S : \A y \in S :
                      x[1] < y[1] \/ (x[1] = y[1] /\ x[2] <= y[2])
         IN  <<k>> \o Ascending(S \ {k})

\* s started at its (r+1)-th element, wrapping around.
Rotated(s, r) == [i \in 1..Len(s) |-> s[((i - 1 + r) % Len(s)) + 1]]

\* Insertion orders of a key set: its ascending and descending orders, each
\* started at every key (every order, for up to three keys).
InsertionOrders(S) ==
    LET a == Ascending(S)
        b == [i \in 1..Len(a) |-> a[Len(a) + 1 - i]]
    IN  IF S = {} THEN {<<>>}
        ELSE {Rotated(a, r) : r \in 0..(Len(a) - 1)} \cup
             {Rotated(b, r) : r \in 0..(Len(b) - 1)}

\* The enumerated dictionaries' key sequences: at most MaxEdges distinct keys.
KeySeqs ==
    UNION {InsertionOrders(S) : S \in {T \in SUBSET Pairs : Cardinality(T) <= MaxEdges}}

\* test_greedily_construct_st: the chain 0-1-2-3-4.
Test1Keys == <<<<0, 1>>, <<1, 2>>, <<2, 3>>, <<3, 4>>>>

\* test_greedily_construct_st: ground-truth angles in degrees.
Test1Deg == <<0, 90, 0, 0, 90>>

\* test_greedily_construct_st2: edges, in insertion order.
Test2Keys == <<<<1, 4>>, <<1, 3>>, <<0, 3>>, <<0, 2>>>>

\* test_greedily_construct_st2: ground-truth angles in degrees.
Test2Deg == <<0, 90, 90, 0, 0>>

\* A component of two nodes inserted before one of three, and node 2 in no edge.
UnevenKeys == <<<<4, 5>>, <<0, 1>>, <<1, 3>>>>

\* A four-cycle 0-1-3-2 with the chain 3-4-5 attached: node 3 is reached
\* from node 0 by two paths of the same length.
CycleKeys == <<<<0, 1>>, <<0, 2>>, <<2, 3>>, <<1, 3>>, <<3, 4>>, <<4, 5>>>>

\* wRi_list_gt[i]: the element of a Python list at index i, 0 <= i < len.
DegAt(degs, i) == degs[i + 1]

\* Ground-truth angles of the enumerated rotation dictionaries, one per node
\* 0..5: those of test_greedily_construct_st, and 0 degrees for node 5.
GtDeg == Test1Deg \o <<0>>

\* Ground-truth angles of the enumerated Sim(2) dictionaries, one per node
\* 0..5: those of test_greedily_construct_st2, and 0 degrees for node 5.
GtSim2Deg == Test2Deg \o <<0>>

\* The tests' dictionary entry: i2Ri1 = wRi2.T @ wRi1.
RelRot(degs, k) ==
    MatMul(Transpose(rotmat2d(DegAt(degs, k[2]))), rotmat2d(DegAt(degs, k[1])))

\* A measured rotation that is a function of the key alone.
NoiseRot(k) == rotmat2d(90 * ((k[1] + 2 * k[2]) % 4))

\* Ground-truth Sim(2) poses, node 0 at the identity.
GtSim2(i) ==
    Sim2(rotmat2d(DegAt(GtSim2Deg, i)),
         <<RInt(i), RInt(0 - 2 * i)>>,
         CASE i % 3 = 0 -> RInt(1) [] i % 3 = 1 -> RInt(2) [] OTHER -> <<1, 2>>)

\* i2Si1 = wSi2^-1 o wSi1.
RelSim2(k) == Sim2Compose(Sim2Inverse(GtSim2(k[2])), GtSim2(k[1]))

\* A measured Sim(2) that is a function of the key alone.
NoiseSim2(k) ==
    Sim2(NoiseRot(k), <<RInt(k[1] + 1), RInt(0 - k[2])>>,
         IF (k[1] + k[2]) % 2 = 0 THEN RInt(2) ELSE <<1, 2>>)

EntryPoints == {"R", "Sim2"}

\* The measurement tables a dictionary's values are drawn from.
Tables(f) == IF f = "R" THEN {"gt", "noise"} ELSE {"gt", "noise"}

TableVal(f, tab, k) ==
    CASE f = "R" /\ tab = "gt" -> RelRot(GtDeg, k)
      [] f = "R" /\ tab = "noise" -> NoiseRot(k)
      [] f = "Sim2" /\ tab = "gt" -> RelSim2(k)
      [] f = "Sim2" /\ tab = "noise" -> NoiseSim2(k)

\* ------------------------------------------------------------------------
\* State of a synchronizer call.  greedily_construct_st ("R") and
\* greedily_construct_st_Sim2 ("Sim2") have the same locals; they are named
\* after the Sim2 function (wSi_list is wRi_list, wSi is wRi, ...).

VARIABLES
    fn,           \* the entry point called: "R" or "Sim2"
    edges,        \* keys of the edge dictionary, in insertion order
    i2Si1_dict,   \* the edge dictionary: key -> relative transform
    pc,           \* "start", "loop", "walk", "done", "raised"
    num_nodes,
    cc_nodes,
    origin_node,
    wSi_list,
    dst_idx,      \* position of dst_node in cc_nodes (1-based)
    path,
    path_pos,     \* position of i1 in path (1-based)
    wSi,
    ret,          \* the returned value once pc = "done"
    call,         \* 1 for the first call on the dictionary, 2 for the repeat
    first_ret     \* what the first call returned

syncVars == <<fn, edges, i2Si1_dict, pc, num_nodes, cc_nodes, origin_node,
              wSi_list, dst_idx, path, path_pos, wSi, ret, call, first_ret>>

\* State of a ransac_align_poses_sim3_ignore_missing call, named after its
\* locals.  Lists are indexed from 1: index i of the code is position i + 1.
VARIABLES
    apc,                        \* "idle", "start", "direct", "loop", "copied",
                                \* "deleted", "fitted", "scored", "done"
    aTi_list_ref,
    bTi_list_est,
    num_iters,
    delete_frac,                \* in percent: 33 is 0.33
    valid_idxs,
    num_to_delete,
    iter,                       \* loop bodies started so far
    aTi_list_ref_subset,
    bTi_list_est_subset,
    delete_idxs,
    aligned_bTi_list_est,
    aSb,
    rot_error,
    trans_error,
    best_aligned_bTi_list_est,
    best_aSb,
    best_trans_error,
    best_rot_error,
    aret,                       \* the returned pair once apc = "done"
    ref0,                       \* the caller's reference list before the call
    est0,                       \* the caller's estimate list before the call
    n_fits,                     \* calls of align_poses_sim3_ignore_missing so far
    fit_in                      \* the arguments of the latest such call

alignVars == <<apc, aTi_list_ref, bTi_list_est, num_iters, delete_frac, valid_idxs,
               num_to_delete, iter, aTi_list_ref_subset, bTi_list_est_subset,
               delete_idxs, aligned_bTi_list_est, aSb, rot_error, trans_error,
               best_aligned_bTi_list_est, best_aSb, best_trans_error,
               best_rot_error, aret, ref0, est0, n_fits, fit_in>>

\* State of the reduction of lines 61-67 taken alone: the best-so-far
\* errors while a given sequence of trial results is processed.
VARIABLES
    trial_results,              \* the <<rot_error, trans_error>> of each trial, in order
    merged,                     \* how many of them lines 61-67 have processed
    merge_best                  \* <<best_rot_error, best_trans_error>>

reduceVars == <<trial_results, merged, merge_best>>

\* State of a program that runs inside "with timeout(seconds=...)" blocks
\* (src/afp/utils/function_timeout.py).  Times are whole seconds.
VARIABLES
    tpc,                        \* "idle", "start", "pre", "mid", "post", "done", "raised"
    now,                        \* the process's clock
    alarm_at,                   \* the time of the pending SIGALRM, None without one
    handler,                    \* the process's SIGALRM handler
    seconds,                    \* self.seconds of the outer and, if any, the nested block
    entered,                    \* the entry times of the blocks not yet left
    work                        \* seconds the body still sleeps: <<pre, mid, post>>

timeoutVars == <<tpc, now, alarm_at, handler, seconds, entered, work>>

\* State of a remove_hallucinated_content call
\* (src/afp/utils/interpolation_utils.py), named after its arguments.
VARIABLES
    ipc,                        \* "idle", "start", "done", "raised"
    sparse_bev_img,             \* H rows of W pixels of 3 channels
    interp_bev_img,
    K_sz,                       \* the argument K
    sparse_dtype,               \* dtype of sparse_bev_img: "uint8" or "int64"
    unhalluc_img                \* the returned image once ipc = "done"

imageVars == <<ipc, sparse_bev_img, interp_bev_img, K_sz, sparse_dtype, unhalluc_img>>

vars == <<syncVars, alignVars, reduceVars, timeoutVars, imageVars>>

\* Error values: rationals <<n, d>>, with +infinity and NaN.
Inf == <<1, 0>>

NaN == <<0, 0>>

\* No "with timeout" block is being run.
TimeoutIdle ==
    /\ tpc = "idle"
    /\ now = 0
    /\ alarm_at = None
    /\ handler = "SIG_DFL"
    /\ seconds = <<>>
    /\ entered = <<>>
    /\ work = <<>>

\* No remove_hallucinated_content call is in progress.
ImageIdle ==
    /\ ipc = "idle"
    /\ sparse_bev_img = <<>>
    /\ interp_bev_img = <<>>
    /\ K_sz = 0
    /\ sparse_dtype = "uint8"
    /\ unhalluc_img = None

\* No sequence of trial results is being reduced.
ReduceIdle ==
    /\ trial_results = <<>>
    /\ merged = 0
    /\ merge_best = <<Inf, Inf>>

\* No aligner call is in progress.
AlignIdle ==
    /\ ReduceIdle
    /\ apc = "idle"
    /\ aTi_list_ref = <<>>
    /\ bTi_list_est = <<>>
    /\ num_iters = 0
    /\ delete_frac = 0
    /\ valid_idxs = <<>>
    /\ num_to_delete = 0
    /\ iter = 0
    /\ aTi_list_ref_subset = <<>>
    /\ bTi_list_est_subset = <<>>
    /\ delete_idxs = {}
    /\ aligned_bTi_list_est = None
    /\ aSb = None
    /\ rot_error = NaN
    /\ trans_error = NaN
    /\ best_aligned_bTi_list_est = None
    /\ best_aSb = None
    /\ best_trans_error = Inf
    /\ best_rot_error = Inf
    /\ aret = None
    /\ ref0 = <<>>
    /\ est0 = <<>>
    /\ n_fits = 0
    /\ fit_in = None

Identity(f) == IF f = "R" THEN Eye2 ELSE Sim2Identity

\* The number of nodes that appear in the edges, in place of lines 34 / 85.
NumNodesCounted(es) == Len(NodeOrder(es))

\* Lines 34 / 85: max([max(i1, i2) for i1, i2 in edges]) + 1
NumNodes(es) == Max({Max({es[i][1], es[i][2]}) : i \in DOMAIN es}) + 1

\* Every entry of the list given the identity pose.
InitialListFilled(f, n, origin) == [i \in 1..n |-> Some(Identity(f))]

\* Lines 39-42 / 90-93: [None] * num_nodes with the origin's identity pose.
InitialList(f, n, origin) ==
    [i \in 1..n |-> IF i - 1 = origin THEN Some(Identity(f)) ELSE None]

\* The inverse taken for the wrong direction.
EdgeRotSwapped(d, i1, i2) ==
    IF i1 < i2 THEN d[<<i1, i2>>] ELSE Transpose(d[<<i2, i1>>])

\* Lines 57-60: the rotation taken for the path pair (i1, i2).
EdgeRot(d, i1, i2) ==
    IF i1 < i2 THEN Transpose(d[<<i1, i2>>]) ELSE d[<<i2, i1>>]

\* The inverse taken for the wrong direction.
EdgeSim2Swapped(d, i1, i2) ==
    IF i1 < i2 THEN d[<<i1, i2>>] ELSE Sim2Inverse(d[<<i2, i1>>])

\* The stored transform taken as it is for either direction.
EdgeSim2NeverInverted(d, i1, i2) ==
    IF i1 < i2 THEN d[<<i1, i2>>] ELSE d[<<i2, i1>>]

\* Lines 111-114: the Sim(2) taken for the path pair (i1, i2).
EdgeSim2(d, i1, i2) ==
    IF i1 < i2 THEN Sim2Inverse(d[<<i1, i2>>]) ELSE d[<<i2, i1>>]

\* list(subgraph.nodes()) left in the graph's node order (no sorted()).
UnsortedCC(es) ==
    SelectSeq(NodeOrder(es), LAMBDA x : x \in get_nodes_in_largest_connected_component(es))

\* Lines 36-37 / 87-88: cc_nodes = sorted(get_nodes_in_largest_connected_component(edges))
SortedCC(es) == sorted(get_nodes_in_largest_connected_component(es))

\* The last node of cc_nodes instead of the first.
LastOf(cc) == cc[Len(cc)]

\* Lines 41 / 92: origin_node = cc_nodes[0]
OriginOf(cc) == cc[1]

\* The locals of a call that has not started.
FreshLocals(f) ==
    /\ num_nodes = 0
    /\ cc_nodes = <<>>
    /\ origin_node = 0
    /\ wSi_list = <<>>
    /\ dst_idx = 0
    /\ path = <<>>
    /\ path_pos = 0
    /\ wSi = Identity(f)
    /\ ret = None

\* A first call of entry point f on the dictionary with keys es and values d.
CalledOn(f, es, d) ==
    /\ fn = f
    /\ edges = es
    /\ i2Si1_dict = d
    /\ pc = "start"
    /\ FreshLocals(f)
    /\ call = 1
    /\ first_ret = None
    /\ AlignIdle
    /\ TimeoutIdle
    /\ ImageIdle

Init ==
    \/ \E es \in KeySeqs \cup {Test1Keys, UnevenKeys, CycleKeys}, f \in EntryPoints :
           \E tab \in Tables(f) :
               CalledOn(f, es, [k \in Range(es) |-> TableVal(f, tab, k)])
    \/ CalledOn("R", Test2Keys, [k \in Range(Test2Keys) |-> RelRot(Test2Deg, k)])

\* greedily_construct_st_Sim2, lines 80-96.
StartSim2 ==
    /\ pc = "start"
    /\ fn = "Sim2"
    /\ IF Len(edges) = 0
       THEN /\ pc' = "done"
            /\ ret' = None
            /\ UNCHANGED <<num_nodes, cc_nodes, origin_node, wSi_list, dst_idx>>
       ELSE LET cc == SortedCC(edges)
            IN  /\ num_nodes' = NumNodes(edges)
                /\ cc_nodes' = cc
                /\ origin_node' = OriginOf(cc)
                /\ wSi_list' = InitialList("Sim2", NumNodes(edges), OriginOf(cc))
                /\ dst_idx' = 2
                /\ pc' = "loop"
                /\ ret' = ret
    /\ UNCHANGED <<fn, edges, i2Si1_dict, path, path_pos, wSi, call, first_ret>>
    /\ UNCHANGED <<alignVars, reduceVars, timeoutVars, imageVars>>

\* greedily_construct_st, lines 32-45: max() of no edges raises ValueError.
StartR ==
    /\ pc = "start"
    /\ fn = "R"
    /\ IF Len(edges) = 0
       THEN /\ pc' = "raised"
            /\ UNCHANGED <<num_nodes, cc_nodes, origin_node, wSi_list, dst_idx>>
       ELSE LET cc == SortedCC(edges)
            IN  /\ num_nodes' = NumNodes(edges)
                /\ cc_nodes' = cc
                /\ origin_node' = OriginOf(cc)
                /\ wSi_list' = InitialList("R", NumNodes(edges), OriginOf(cc))
                /\ dst_idx' = 2
                /\ pc' = "loop"
    /\ UNCHANGED <<fn, edges, i2Si1_dict, path, path_pos, wSi, ret, call, first_ret>>
    /\ UNCHANGED <<alignVars, reduceVars, timeoutVars, imageVars>>

\* Lines 53 / 107: the accumulator a destination starts from.
FreshPose(f, old) == Identity(f)

\* The inverse of a stored transform of entry point f.
InverseOf(f, x) == IF f = "R" THEN Transpose(x) ELSE Sim2Inverse(x)

\* The dictionary after a lookup that inverts the stored transform in
\* place, in the object the caller handed in.
DictAfterEdgeInvertedInPlace(f, d, i1, i2) ==
    IF i1 < i2 THEN [d EXCEPT ![<<i1, i2>>] = InverseOf(f, d[<<i1, i2>>])] ELSE d

\* Lines 57-60 / 111-114: the lookup reads the caller's dictionary, and
\* .T and .inverse() build a new value: the dictionary is as it was.
DictAfterEdge(f, d, i1, i2) == d

\* Lines 99-107: for dst_node in cc_nodes[1:], its path and a fresh pose.
BeginDstSim2 ==
    /\ pc = "loop"
    /\ fn = "Sim2"
    /\ dst_idx <= Len(cc_nodes)
    /\ path' = shortest_path(edges, origin_node, cc_nodes[dst_idx])
    /\ path_pos' = 1
    /\ wSi' = FreshPose("Sim2", wSi)
    /\ pc' = "walk"
    /\ UNCHANGED <<fn, edges, i2Si1_dict, num_nodes, cc_nodes, origin_node,
                   wSi_list, dst_idx, ret, call, first_ret>>
    /\ UNCHANGED <<alignVars, reduceVars, timeoutVars, imageVars>>

\* Lines 48-53.
BeginDstR ==
    /\ pc = "loop"
    /\ fn = "R"
    /\ dst_idx <= Len(cc_nodes)
    /\ path' = shortest_path(edges, origin_node, cc_nodes[dst_idx])
    /\ path_pos' = 1
    /\ wSi' = FreshPose("R", wSi)
    /\ pc' = "walk"
    /\ UNCHANGED <<fn, edges, i2Si1_dict, num_nodes, cc_nodes, origin_node,
                   wSi_list, dst_idx, ret, call, first_ret>>
    /\ UNCHANGED <<alignVars, reduceVars, timeoutVars, imageVars>>

\* Lines 108-117: one (i1, i2) of zip(path[:-1], path[1:]).
WalkSim2 ==
    /\ pc = "walk"
    /\ fn = "Sim2"
    /\ path_pos < Len(path)
    /\ wSi' = Sim2Compose(wSi, EdgeSim2(i2Si1_dict, path[path_pos], path[path_pos + 1]))
    /\ i2Si1_dict' = DictAfterEdge("Sim2", i2Si1_dict, path[path_pos], path[path_pos + 1])
    /\ path_pos' = path_pos + 1
    /\ UNCHANGED <<fn, edges, pc, num_nodes, cc_nodes, origin_node,
                   wSi_list, dst_idx, path, ret, call, first_ret>>
    /\ UNCHANGED <<alignVars, reduceVars, timeoutVars, imageVars>>

\* Lines 54-63.
WalkR ==
    /\ pc = "walk"
    /\ fn = "R"
    /\ path_pos < Len(path)
    /\ wSi' = MatMul(wSi, EdgeRot(i2Si1_dict, path[path_pos], path[path_pos + 1]))
    /\ i2Si1_dict' = DictAfterEdge("R", i2Si1_dict, path[path_pos], path[path_pos + 1])
    /\ path_pos' = path_pos + 1
    /\ UNCHANGED <<fn, edges, pc, num_nodes, cc_nodes, origin_node,
                   wSi_list, dst_idx, path, ret, call, first_ret>>
    /\ UNCHANGED <<alignVars, reduceVars, timeoutVars, imageVars>>

\* Lines 65 / 119: wSi_list[dst_node] = wSi, then the next dst_node.
AssignDst ==
    /\ pc = "walk"
    /\ path_pos = Len(path)
    /\ wSi_list' = [wSi_list EXCEPT ![cc_nodes[dst_idx] + 1] = Some(wSi)]
    /\ dst_idx' = dst_idx + 1
    /\ pc' = "loop"
    /\ UNCHANGED <<fn, edges, i2Si1_dict, num_nodes, cc_nodes, origin_node,
                   path, path_pos, wSi, ret, call, first_ret>>
    /\ UNCHANGED <<alignVars, reduceVars, timeoutVars, imageVars>>

\* Lines 67 / 121: return wSi_list.
Return ==
    /\ pc = "loop"
    /\ dst_idx > Len(cc_nodes)
    /\ ret' = Some(wSi_list)
    /\ pc' = "done"
    /\ UNCHANGED <<fn, edges, i2Si1_dict, num_nodes, cc_nodes, origin_node,
                   wSi_list, dst_idx, path, path_pos, wSi, call, first_ret>>
    /\ UNCHANGED <<alignVars, reduceVars, timeoutVars, imageVars>>

\* The caller keeps the returned list and calls the same entry point again
\* with the same dictionary object: the new call starts with no locals of
\* the first one.
CallAgain ==
    /\ pc = "done"
    /\ call = 1
    /\ call' = 2
    /\ first_ret' = ret
    /\ pc' = "start"
    /\ num_nodes' = 0
    /\ cc_nodes' = <<>>
    /\ origin_node' = 0
    /\ wSi_list' = <<>>
    /\ dst_idx' = 0
    /\ path' = <<>>
    /\ path_pos' = 0
    /\ wSi' = Identity(fn)
    /\ ret' = None
    /\ UNCHANGED <<fn, edges, i2Si1_dict>>
    /\ UNCHANGED <<alignVars, reduceVars, timeoutVars, imageVars>>

Next ==
    \/ StartSim2
    \/ StartR
    \/ BeginDstSim2
    \/ BeginDstR
    \/ WalkSim2
    \/ WalkR
    \/ AssignDst
    \/ Return
    \/ CallAgain

Spec == Init /\ [][Next]_vars

\* ------------------------------------------------------------------------
\* RANSAC alignment (src/afp/utils/ransac.py).  A pose is [rot, trans]: an
\* angle in degrees and a position on a line, so that the angle between two
\* rotations and the norm of a translation difference are absolute values.

\* Length of the enumerated pose lists.
MaxLen == 5

\* Largest enumerated num_iters.
MaxIters == 2

\* DEFAULT_DELETE_FRAC = 0.33, in percent.
DEFAULT_DELETE_FRAC == 33

\* The enumerated delete_frac values, in percent.
DeleteFracs == {0, 20, DEFAULT_DELETE_FRAC}

Pose3(r, t) == [rot |-> r, trans |-> t]

\* The indices (from 0) at which the list l holds a pose.
Present(l) == {i \in 0..(Len(l) - 1) : l[i + 1] # None}

\* Error arithmetic: x <= y as Python floats compare (False with a NaN).
LessEq(x, y) ==
    IF x = NaN \/ y = NaN THEN FALSE
    ELSE IF y = Inf THEN TRUE
    ELSE IF x = Inf THEN FALSE
    ELSE x[1] * y[2] <= y[1] * x[2]

RECURSIVE SumSeq(_)
SumSeq(q) == IF q = <<>> THEN 0 ELSE Head(q) + SumSeq(Tail(q))

\* np.mean: NaN for an empty list.
Mean(q) == IF q = <<>> THEN NaN ELSE RatNorm(SumSeq(q), Len(q))

\* math.floor in place of math.ceil at line 34.
FloorFrac(pct, n) == (pct * n) \div 100

\* math.ceil(delete_frac * n), delete_frac given in percent.
CeilFrac(pct, n) == (pct * n + 99) \div 100

\* Line 35 with the direct fit refused to fewer than three entries.
DirectOnlyFromThree(nvalid, ndel) == nvalid - ndel <= 3 /\ nvalid >= 3

\* Line 35 with the comparison made strict.
DirectWhenBelow3(nvalid, ndel) == nvalid - ndel < 3

\* Line 35: if len(valid_idxs) - num_to_delete <= 3
UseDirectFit(nvalid, ndel) == nvalid - ndel <= 3

\* The transforms a closed-form fit can return: a rotation and a shift.
FitShifts == {Pose3(r, t) : r \in {0, 1}, t \in {0, 1}}

\* A fitted transform whose translation is NaN: it has no trans field.
NaNFit(r) == [rot |-> r]

\* A transform, or a pose, whose translation is NaN.
TransIsNaN(p) == "trans" \notin DOMAIN p

\* The closed-form fit is geometrically degenerate on an estimate whose
\* entries, two or more, all sit at one position: the scale it solves for
\* is 0 / 0.
Degenerate(est) ==
    /\ Cardinality(Present(est)) >= 2
    /\ Cardinality({est[i + 1][1].trans : i \in Present(est)}) = 1

\* What the closed-form fit can return on an estimate: a transform, and on
\* a degenerate estimate also a transform with a NaN translation (a fit
\* that falls back to aligning centroids returns an ordinary transform).
FitResults(est) ==
    FitShifts \cup (IF Degenerate(est) THEN {NaNFit(r) : r \in {0, 1}} ELSE {})

\* The inputs on which the closed-form fit may raise instead of returning:
\* lists of different lengths, an estimate entry with no reference entry to
\* pair it with, or fewer than two estimate entries.
FitCanFail(ref, est) ==
    \/ Len(ref) # Len(est)
    \/ ~(Present(est) \subseteq Present(ref))
    \/ Cardinality(Present(est)) < 2

\* gtsfm align_poses_sim3_ignore_missing: the estimate moved by the fitted
\* transform T at the indices where the estimate is present, None elsewhere.
AlignedBy(T, est) ==
    [i \in 1..Len(est) |->
        IF est[i] = None THEN None
        ELSE IF TransIsNaN(T) THEN Some(NaNFit(est[i][1].rot + T.rot))
        ELSE Some(Pose3(est[i][1].rot + T.rot, est[i][1].trans + T.trans))]

\* Lines 90-99 with a zero error appended for an index where either entry
\* is None.
RECURSIVE PoseErrorsZeroForMissing(_, _, _, _)
PoseErrorsZeroForMissing(gt, al, i, what) ==
    IF i > Len(gt) \/ i > Len(al) THEN <<>>
    ELSE <<IF gt[i] = None \/ al[i] = None THEN 0
           ELSE IF what = "rot" THEN Abs(gt[i][1].rot - al[i][1].rot)
           ELSE Abs(gt[i][1].trans - al[i][1].trans)>>
         \o PoseErrorsZeroForMissing(gt, al, i + 1, what)

\* Lines 90-99: the per-index errors, over zip(gt, aligned), skipping the
\* indices where either entry is None.
RECURSIVE PoseErrorsFrom(_, _, _, _)
PoseErrorsFrom(gt, al, i, what) ==
    IF i > Len(gt) \/ i > Len(al) THEN <<>>
    ELSE IF gt[i] = None \/ al[i] = None THEN PoseErrorsFrom(gt, al, i + 1, what)
    ELSE <<IF what = "rot" THEN Abs(gt[i][1].rot - al[i][1].rot)
           ELSE Abs(gt[i][1].trans - al[i][1].trans)>>
         \o PoseErrorsFrom(gt, al, i + 1, what)

\* compute_pose_errors_3d, lines 72-105: <<mean_rot_err, mean_trans_err>>.
compute_pose_errors_3d(gt, al) ==
    <<Mean(PoseErrorsFrom(gt, al, 1, "rot")),
      IF \E i \in Present(gt) \cap Present(al) : TransIsNaN(al[i + 1][1])
      THEN NaN
      ELSE Mean(PoseErrorsFrom(gt, al, 1, "trans"))>>

\* The working list of the previous trial taken again instead of a copy.
EstWorkingCopyReused == IF iter = 0 THEN bTi_list_est ELSE bTi_list_est_subset

\* Line 46: bTi_list_est_subset = copy.deepcopy(bTi_list_est)
EstWorkingCopy == bTi_list_est

\* Line 45: aTi_list_ref_subset = copy.deepcopy(aTi_list_ref)
RefWorkingCopy == aTi_list_ref

\* The synchronizer is not in use.
SyncIdle ==
    /\ fn = "R"
    /\ edges = <<>>
    /\ i2Si1_dict = <<>>
    /\ pc = "idle"
    /\ FreshLocals("R")
    /\ call = 1
    /\ first_ret = None

\* The reference pose of index i, and an estimate of it in which the last
\* present index hi is off by one unit.
RefPose(i) == Pose3(0, 10 * i)

EstPose(i, hi) == Pose3(0, 10 * i + (IF i = hi THEN 1 ELSE 0))

\* The reference lists a call is made with, by where they hold a pose:
\* at every index, where the estimate does, nowhere, where the estimate
\* does but for its first index, and at every index of a list one shorter
\* than the estimate.
RefShapes == {"all", "where_est", "none", "not_lo", "short"}

RefList(shape, est, lo) ==
    [i \in 1..(IF shape = "short" THEN Len(est) - 1 ELSE Len(est)) |->
        IF \/ shape \in {"all", "short"}
           \/ shape = "where_est" /\ est[i] # None
           \/ shape = "not_lo" /\ est[i] # None /\ i - 1 # lo
        THEN Some(RefPose(i - 1)) ELSE None]

\* A call on an estimate of length MaxLen present on lo..hi and a
\* reference of one of the shapes.
InitAlign ==
    \E lo \in 0..MaxLen, hi \in (0 - 1)..(MaxLen - 1), shape \in RefShapes,
       frac \in DeleteFracs, n \in 0..MaxIters :
        LET est == [i \in 1..MaxLen |->
                       IF lo <= i - 1 /\ i - 1 <= hi THEN Some(EstPose(i - 1, hi)) ELSE None]
            ref == RefList(shape, est, lo)
        IN  /\ lo <= hi + 1
            /\ apc = "start"
            /\ aTi_list_ref = ref
            /\ bTi_list_est = est
            /\ ref0 = ref
            /\ est0 = est
            /\ num_iters = n
            /\ delete_frac = frac
            /\ valid_idxs = <<>>
            /\ num_to_delete = 0
            /\ iter = 0
            /\ aTi_list_ref_subset = <<>>
            /\ bTi_list_est_subset = <<>>
            /\ delete_idxs = {}
            /\ aligned_bTi_list_est = None
            /\ aSb = None
            /\ rot_error = NaN
            /\ trans_error = NaN
            /\ best_aligned_bTi_list_est = None
            /\ best_aSb = None
            /\ best_trans_error = Inf
            /\ best_rot_error = Inf
            /\ aret = None
            /\ n_fits = 0
            /\ fit_in = None
            /\ SyncIdle
            /\ TimeoutIdle
            /\ ImageIdle
            /\ ReduceIdle

\* Lines 28-35: the best-so-far values, valid_idxs, num_to_delete and the
\* choice between the direct fit and the RANSAC loop.
Begin ==
    /\ apc = "start"
    /\ best_aligned_bTi_list_est' = None
    /\ best_aSb' = None
    /\ best_trans_error' = Inf
    /\ best_rot_error' = Inf
    /\ valid_idxs' = sorted(Present(bTi_list_est))
    /\ num_to_delete' = CeilFrac(delete_frac, Cardinality(Present(bTi_list_est)))
    /\ apc' = IF UseDirectFit(Cardinality(Present(bTi_list_est)),
                              CeilFrac(delete_frac, Cardinality(Present(bTi_list_est))))
              THEN "direct" ELSE "loop"
    /\ UNCHANGED <<aTi_list_ref, bTi_list_est, num_iters, delete_frac, iter,
                   aTi_list_ref_subset, bTi_list_est_subset, delete_idxs,
                   aligned_bTi_list_est, aSb, rot_error, trans_error, aret,
                   ref0, est0, n_fits, fit_in>>
    /\ UNCHANGED <<syncVars, reduceVars, timeoutVars, imageVars>>

\* Lines 37-40: one fit on the arguments, returned as it is.
DirectFit ==
    /\ apc = "direct"
    /\ \E T \in FitResults(bTi_list_est) :
           /\ aligned_bTi_list_est' = Some(AlignedBy(T, bTi_list_est))
           /\ aSb' = Some(T)
           /\ aret' = Some(<<Some(AlignedBy(T, bTi_list_est)), Some(T)>>)
    /\ n_fits' = n_fits + 1
    /\ fit_in' = Some(<<aTi_list_ref, bTi_list_est>>)
    /\ apc' = "done"
    /\ UNCHANGED <<aTi_list_ref, bTi_list_est, num_iters, delete_frac, valid_idxs,
                   num_to_delete, iter, aTi_list_ref_subset, bTi_list_est_subset,
                   delete_idxs, rot_error, trans_error, best_aligned_bTi_list_est,
                   best_aSb, best_trans_error, best_rot_error, ref0, est0>>
    /\ UNCHANGED <<syncVars, reduceVars, timeoutVars, imageVars>>

\* Lines 37-39: the direct fit raises, and the exception leaves the call.
DirectFitRaises ==
    /\ apc = "direct"
    /\ FitCanFail(aTi_list_ref, bTi_list_est)
    /\ n_fits' = n_fits + 1
    /\ fit_in' = Some(<<aTi_list_ref, bTi_list_est>>)
    /\ apc' = "raised"
    /\ UNCHANGED <<aTi_list_ref, bTi_list_est, num_iters, delete_frac, valid_idxs,
                   num_to_delete, iter, aTi_list_ref_subset, bTi_list_est_subset,
                   delete_idxs, aligned_bTi_list_est, aSb, rot_error, trans_error,
                   best_aligned_bTi_list_est, best_aSb, best_trans_error,
                   best_rot_error, aret, ref0, est0>>
    /\ UNCHANGED <<syncVars, reduceVars, timeoutVars, imageVars>>

\* Lines 43-46: the next iteration of range(num_iters) copies both lists.
CopyLists ==
    /\ apc = "loop"
    /\ iter < num_iters
    /\ iter' = iter + 1
    /\ aTi_list_ref_subset' = RefWorkingCopy
    /\ bTi_list_est_subset' = EstWorkingCopy
    /\ apc' = "copied"
    /\ UNCHANGED <<aTi_list_ref, bTi_list_est, num_iters, delete_frac, valid_idxs,
                   num_to_delete, delete_idxs, aligned_bTi_list_est, aSb, rot_error,
                   trans_error, best_aligned_bTi_list_est, best_aSb,
                   best_trans_error, best_rot_error, aret, ref0, est0, n_fits, fit_in>>
    /\ UNCHANGED <<syncVars, reduceVars, timeoutVars, imageVars>>

\* Line 51 left out: the list as it was.
DeletedNowhere(l, D) == l

\* Line 51 applied to a list: the entries at the indices D set to None.
DeletedAt(l, D) == [i \in 1..Len(l) |-> IF i - 1 \in D THEN None ELSE l[i]]

\* The caller's list written through, as if line 46 had bound the same
\* list object instead of a copy.
CallerEstAliased(est, D) == DeletedAt(est, D)

\* Lines 46 and 51: the deep copy is a separate object, so the assignments
\* of line 51 leave the caller's list as it was.
CallerEstAfterDelete(est, D) == est

\* Lines 49-51: np.random.choice(valid_idxs, num_to_delete, replace=False)
\* and the chosen entries of the estimate copy set to None.
DeleteSample ==
    /\ apc = "copied"
    /\ \E D \in {X \in SUBSET Range(valid_idxs) : Cardinality(X) = num_to_delete} :
           /\ delete_idxs' = D
           /\ bTi_list_est_subset' = DeletedAt(bTi_list_est_subset, D)
           /\ bTi_list_est' = CallerEstAfterDelete(bTi_list_est, D)
    /\ apc' = "deleted"
    /\ UNCHANGED <<aTi_list_ref, num_iters, delete_frac, valid_idxs,
                   num_to_delete, iter, aTi_list_ref_subset, aligned_bTi_list_est,
                   aSb, rot_error, trans_error, best_aligned_bTi_list_est, best_aSb,
                   best_trans_error, best_rot_error, aret, ref0, est0, n_fits, fit_in>>
    /\ UNCHANGED <<syncVars, reduceVars, timeoutVars, imageVars>>

\* Lines 53-55: the fit of the trial's copies.
FitTrial ==
    /\ apc = "deleted"
    /\ \E T \in FitResults(bTi_list_est_subset) :
           /\ aligned_bTi_list_est' = Some(AlignedBy(T, bTi_list_est_subset))
           /\ aSb' = Some(T)
    /\ n_fits' = n_fits + 1
    /\ fit_in' = Some(<<aTi_list_ref_subset, bTi_list_est_subset>>)
    /\ apc' = "fitted"
    /\ UNCHANGED <<aTi_list_ref, bTi_list_est, num_iters, delete_frac, valid_idxs,
                   num_to_delete, iter, aTi_list_ref_subset, bTi_list_est_subset,
                   delete_idxs, rot_error, trans_error, best_aligned_bTi_list_est,
                   best_aSb, best_trans_error, best_rot_error, aret, ref0, est0>>
    /\ UNCHANGED <<syncVars, reduceVars, timeoutVars, imageVars>>

\* Lines 53-55: the fit of a trial raises; nothing in the loop catches it,
\* so the exception leaves the call.
FitTrialRaises ==
    /\ apc = "deleted"
    /\ FitCanFail(aTi_list_ref_subset, bTi_list_est_subset)
    /\ n_fits' = n_fits + 1
    /\ fit_in' = Some(<<aTi_list_ref_subset, bTi_list_est_subset>>)
    /\ apc' = "raised"
    /\ UNCHANGED <<aTi_list_ref, bTi_list_est, num_iters, delete_frac, valid_idxs,
                   num_to_delete, iter, aTi_list_ref_subset, bTi_list_est_subset,
                   delete_idxs, aligned_bTi_list_est, aSb, rot_error, trans_error,
                   best_aligned_bTi_list_est, best_aSb, best_trans_error,
                   best_rot_error, aret, ref0, est0>>
    /\ UNCHANGED <<syncVars, reduceVars, timeoutVars, imageVars>>

\* The estimate moved by the trial's transform at every index where the
\* caller's estimate is present, the deleted ones included.
ScoredCandidateUndeleted == AlignedBy(aSb[1], bTi_list_est)

\* Line 58, second argument: the list the fit of lines 53-55 returned.
ScoredCandidate == aligned_bTi_list_est[1]

\* Line 58: the candidate scored against aTi_list_ref.
Score ==
    /\ apc = "fitted"
    /\ rot_error' = compute_pose_errors_3d(aTi_list_ref, ScoredCandidate)[1]
    /\ trans_error' = compute_pose_errors_3d(aTi_list_ref, ScoredCandidate)[2]
    /\ apc' = "scored"
    /\ UNCHANGED <<aTi_list_ref, bTi_list_est, num_iters, delete_frac, valid_idxs,
                   num_to_delete, iter, aTi_list_ref_subset, bTi_list_est_subset,
                   delete_idxs, aligned_bTi_list_est, aSb, best_aligned_bTi_list_est,
                   best_aSb, best_trans_error, best_rot_error, aret, ref0, est0,
                   n_fits, fit_in>>
    /\ UNCHANGED <<syncVars, reduceVars, timeoutVars, imageVars>>

\* Line 61 with both comparisons strict.
AcceptsStrictly(rot, trans, best_rot, best_trans) ==
    /\ LessEq(trans, best_trans) /\ trans # best_trans
    /\ LessEq(rot, best_rot) /\ rot # best_rot

\* Line 61 with the rotation error left out.
AcceptsOnTranslation(rot, trans, best_rot, best_trans) ==
    LessEq(trans, best_trans)

\* Line 61 with "or" in place of "and".
AcceptsEither(rot, trans, best_rot, best_trans) ==
    LessEq(trans, best_trans) \/ LessEq(rot, best_rot)

\* Line 61 written as "neither error is greater than the best one".
AcceptsUnlessWorse(rot, trans, best_rot, best_trans) ==
    /\ ~(LessEq(best_trans, trans) /\ trans # best_trans)
    /\ ~(LessEq(best_rot, rot) /\ rot # best_rot)

\* Line 61: trans_error <= best_trans_error and rot_error <= best_rot_error
Accepts(rot, trans, best_rot, best_trans) ==
    LessEq(trans, best_trans) /\ LessEq(rot, best_rot)

\* Lines 61-67: the candidate kept as the best when it is accepted.
UpdateBest ==
    /\ apc = "scored"
    /\ IF Accepts(rot_error, trans_error, best_rot_error, best_trans_error)
       THEN /\ best_aligned_bTi_list_est' = aligned_bTi_list_est
            /\ best_aSb' = aSb
            /\ best_trans_error' = trans_error
            /\ best_rot_error' = rot_error
       ELSE UNCHANGED <<best_aligned_bTi_list_est, best_aSb, best_trans_error,
                        best_rot_error>>
    /\ apc' = "loop"
    /\ UNCHANGED <<aTi_list_ref, bTi_list_est, num_iters, delete_frac, valid_idxs,
                   num_to_delete, iter, aTi_list_ref_subset, bTi_list_est_subset,
                   delete_idxs, aligned_bTi_list_est, aSb, rot_error, trans_error,
                   aret, ref0, est0, n_fits, fit_in>>
    /\ UNCHANGED <<syncVars, reduceVars, timeoutVars, imageVars>>

\* The best list returned with the transform of the last trial.
BestWithLastTransform == <<best_aligned_bTi_list_est, aSb>>

\* Line 69: the pair that is returned.
BestPair == <<best_aligned_bTi_list_est, best_aSb>>

\* Line 69: return best_aligned_bTi_list_est, best_aSb
ReturnBest ==
    /\ apc = "loop"
    /\ iter >= num_iters
    /\ aret' = Some(BestPair)
    /\ apc' = "done"
    /\ UNCHANGED <<aTi_list_ref, bTi_list_est, num_iters, delete_frac, valid_idxs,
                   num_to_delete, iter, aTi_list_ref_subset, bTi_list_est_subset,
                   delete_idxs, aligned_bTi_list_est, aSb, rot_error, trans_error,
                   best_aligned_bTi_list_est, best_aSb, best_trans_error,
                   best_rot_error, ref0, est0, n_fits, fit_in>>
    /\ UNCHANGED <<syncVars, reduceVars, timeoutVars, imageVars>>

NextAlign ==
    \/ Begin
    \/ DirectFit
    \/ DirectFitRaises
    \/ CopyLists
    \/ DeleteSample
    \/ FitTrial
    \/ FitTrialRaises
    \/ Score
    \/ UpdateBest
    \/ ReturnBest

SpecAlign == InitAlign /\ [][NextAlign]_vars

\* ------------------------------------------------------------------------
\* The aligner on estimates whose entries all sit at one position but for
\* one: a trial that deletes that one is left with a degenerate fit.

\* A call on an estimate of up to MaxLen entries, all at position 0 but
\* for the entry at index off, and a reference present everywhere.
InitDegenerate ==
    \E len \in 3..MaxLen, off \in 0..(MaxLen - 1), frac \in DeleteFracs,
       n \in 0..MaxIters :
        LET est == [i \in 1..len |-> Some(Pose3(0, IF i - 1 = off THEN 10 ELSE 0))]
            ref == [i \in 1..len |-> Some(RefPose(i - 1))]
        IN  /\ off < len
            /\ apc = "start"
            /\ aTi_list_ref = ref
            /\ bTi_list_est = est
            /\ ref0 = ref
            /\ est0 = est
            /\ num_iters = n
            /\ delete_frac = frac
            /\ valid_idxs = <<>>
            /\ num_to_delete = 0
            /\ iter = 0
            /\ aTi_list_ref_subset = <<>>
            /\ bTi_list_est_subset = <<>>
            /\ delete_idxs = {}
            /\ aligned_bTi_list_est = None
            /\ aSb = None
            /\ rot_error = NaN
            /\ trans_error = NaN
            /\ best_aligned_bTi_list_est = None
            /\ best_aSb = None
            /\ best_trans_error = Inf
            /\ best_rot_error = Inf
            /\ aret = None
            /\ n_fits = 0
            /\ fit_in = None
            /\ SyncIdle
            /\ TimeoutIdle
            /\ ImageIdle
            /\ ReduceIdle

NextDegenerate ==
    \/ Begin
    \/ DirectFit
    \/ CopyLists
    \/ DeleteSample
    \/ FitTrial
    \/ Score
    \/ UpdateBest
    \/ ReturnBest

SpecDegenerate == InitDegenerate /\ [][NextDegenerate]_vars

\* ------------------------------------------------------------------------
\* The entry of the aligner (lines 28-35) on estimates of up to MaxEntries
\* entries: the choice between the direct fit and the RANSAC loop.

\* Largest length of the enumerated estimates.
MaxEntries == 8

\* A call on an estimate of length len present on lo..hi, with a reference
\* present at every index.
InitEntry ==
    \E len \in 0..MaxEntries, lo \in 0..MaxEntries, hi \in (0 - 1)..(MaxEntries - 1),
       frac \in DeleteFracs, n \in 0..MaxIters :
        LET est == [i \in 1..len |->
                       IF lo <= i - 1 /\ i - 1 <= hi THEN Some(EstPose(i - 1, hi)) ELSE None]
            ref == [i \in 1..len |-> Some(RefPose(i - 1))]
        IN  /\ lo <= hi + 1
            /\ hi < len
            /\ lo <= len
            /\ apc = "start"
            /\ aTi_list_ref = ref
            /\ bTi_list_est = est
            /\ ref0 = ref
            /\ est0 = est
            /\ num_iters = n
            /\ delete_frac = frac
            /\ valid_idxs = <<>>
            /\ num_to_delete = 0
            /\ iter = 0
            /\ aTi_list_ref_subset = <<>>
            /\ bTi_list_est_subset = <<>>
            /\ delete_idxs = {}
            /\ aligned_bTi_list_est = None
            /\ aSb = None
            /\ rot_error = NaN
            /\ trans_error = NaN
            /\ best_aligned_bTi_list_est = None
            /\ best_aSb = None
            /\ best_trans_error = Inf
            /\ best_rot_error = Inf
            /\ aret = None
            /\ n_fits = 0
            /\ fit_in = None
            /\ SyncIdle
            /\ TimeoutIdle
            /\ ImageIdle
            /\ ReduceIdle

NextEntry == Begin

SpecEntry == InitEntry /\ [][NextEntry]_vars

\* ------------------------------------------------------------------------
\* The call of test_ransac_align_poses_sim3_ignore_missing (lines 108-134)
\* with the closed-form fit computed exactly.  Translations are 3-vectors
\* of rationals and every rotation is the identity Rot3(), as in the test.

RSub(x, y) == RAdd(x, RNeg(y))

RECURSIVE RSum(_)
RSum(q) == IF q = <<>> THEN RInt(0) ELSE RAdd(RSum(SubSeq(q, 1, Len(q) - 1)), q[Len(q)])

\* Lines 113-119: aTi_list.
TestRef ==
    <<None,
      Some(Pose3(0, <<RInt(50), RInt(0), RInt(0)>>)),
      Some(Pose3(0, <<RInt(0), RInt(10), RInt(0)>>)),
      Some(Pose3(0, <<RInt(0), RInt(0), RInt(20)>>)),
      None>>

\* Lines 122-128: aTi_list_, the last pose with translation [0, 0, z].
TestEstWith(z) ==
    <<None,
      Some(Pose3(0, <<<<501, 10>>, RInt(0), RInt(0)>>)),
      Some(Pose3(0, <<RInt(0), <<99, 10>>, RInt(0)>>)),
      Some(Pose3(0, <<RInt(0), RInt(0), RInt(z)>>)),
      None>>

\* Line 126: the outlier's z of the test, 2000, and two smaller ones.
OutlierZs == {20, 200, 2000}

TestEst == TestEstWith(2000)

\* The mean of the points pts (a sequence of 3-vectors).
Centroid(pts) ==
    [c \in 1..3 |-> RMul(RSum([i \in 1..Len(pts) |-> pts[i][c]]), <<1, Len(pts)>>)]

\* The sum over the coordinates and the points of u[i][c] * v[i][c].
SumOfProducts(u, v) ==
    RSum([c \in 1..3 |-> RSum([i \in 1..Len(u) |-> RMul(u[i][c], v[i][c])])])

\* gtsfm align_poses_sim3_ignore_missing on poses with identity rotations:
\* gtsam Similarity3.Align of the pairs at the indices where the estimate
\* is present gives the rotation aRb = identity, the scale
\* s = sum(da . db) / sum(db . db) over the centred translations and the
\* translation (c_a - s c_b) / s; the aligned pose of b_i has translation
\* c_a + s (b_i - c_b).  A translation is kept as its three terms
\* [base, s, off], standing for base + s * off.
align_poses_sim3_ignore_missing(ref, est) ==
    LET idx == sorted(Present(est))
        a == [j \in 1..Len(idx) |-> ref[idx[j] + 1][1].trans]
        b == [j \in 1..Len(idx) |-> est[idx[j] + 1][1].trans]
        ca == Centroid(a)
        cb == Centroid(b)
        da == [j \in 1..Len(idx) |-> [c \in 1..3 |-> RSub(a[j][c], ca[c])]]
        db == [j \in 1..Len(idx) |-> [c \in 1..3 |-> RSub(b[j][c], cb[c])]]
        s == RMul(SumOfProducts(da, db), RInv(SumOfProducts(db, db)))
    IN  <<[i \in 1..Len(est) |->
              IF est[i] = None THEN None
              ELSE Some(Pose3(0, [base |-> ca, s |-> s,
                                  off |-> [c \in 1..3 |-> RSub(est[i][1].trans[c], cb[c])]]))],
          [rot |-> 0, s |-> s, c_a |-> ca, c_b |-> cb]>>

\* The test's call (line 130) with the estimate present at two or three of
\* the indices 1, 2, 3, for the settings of the bounds.
InitTest ==
    \E z \in OutlierZs, gone \in {0, 1, 2, 3}, frac \in DeleteFracs, n \in 0..MaxIters :
        LET est == [i \in 1..Len(TestEstWith(z)) |->
                       IF i - 1 = gone THEN None ELSE TestEstWith(z)[i]]
        IN  /\ apc = "start"
            /\ aTi_list_ref = TestRef
            /\ bTi_list_est = est
            /\ ref0 = TestRef
            /\ est0 = est
            /\ num_iters = n
            /\ delete_frac = frac
            /\ valid_idxs = <<>>
            /\ num_to_delete = 0
            /\ iter = 0
            /\ aTi_list_ref_subset = <<>>
            /\ bTi_list_est_subset = <<>>
            /\ delete_idxs = {}
            /\ aligned_bTi_list_est = None
            /\ aSb = None
            /\ rot_error = NaN
            /\ trans_error = NaN
            /\ best_aligned_bTi_list_est = None
            /\ best_aSb = None
            /\ best_trans_error = Inf
            /\ best_rot_error = Inf
            /\ aret = None
            /\ n_fits = 0
            /\ fit_in = None
            /\ SyncIdle
            /\ TimeoutIdle
            /\ ImageIdle
            /\ ReduceIdle

\* Lines 37-40 with the fit computed.
DirectFitComputed ==
    /\ apc = "direct"
    /\ aligned_bTi_list_est' = Some(align_poses_sim3_ignore_missing(aTi_list_ref, bTi_list_est)[1])
    /\ aSb' = Some(align_poses_sim3_ignore_missing(aTi_list_ref, bTi_list_est)[2])
    /\ aret' = Some(<<Some(align_poses_sim3_ignore_missing(aTi_list_ref, bTi_list_est)[1]),
                      Some(align_poses_sim3_ignore_missing(aTi_list_ref, bTi_list_est)[2])>>)
    /\ n_fits' = n_fits + 1
    /\ fit_in' = Some(<<aTi_list_ref, bTi_list_est>>)
    /\ apc' = "done"
    /\ UNCHANGED <<aTi_list_ref, bTi_list_est, num_iters, delete_frac, valid_idxs,
                   num_to_delete, iter, aTi_list_ref_subset, bTi_list_est_subset,
                   delete_idxs, rot_error, trans_error, best_aligned_bTi_list_est,
                   best_aSb, best_trans_error, best_rot_error, ref0, est0>>
    /\ UNCHANGED <<syncVars, reduceVars, timeoutVars, imageVars>>

NextTest ==
    \/ Begin
    \/ DirectFitComputed

SpecTest == InitTest /\ [][NextTest]_vars

\* ------------------------------------------------------------------------
\* The reduction of lines 61-67 on its own: the best-so-far errors as a
\* function of the sequence of trial results.

MaxTrials == 3

\* Lines 61-67 with the first accepted candidate kept for good.
KeepFirstAccepted(best, cand) ==
    IF best = <<Inf, Inf>> /\ Accepts(cand[1], cand[2], best[1], best[2])
    THEN cand ELSE best

\* Lines 61-67 on the errors: the candidate's pair <<rot, trans>> becomes
\* the best when line 61 accepts it.
KeepBetter(best, cand) ==
    IF Accepts(cand[1], cand[2], best[1], best[2]) THEN cand ELSE best

\* Lines 30-31, 43 and 61-67: the best errors after the trials of q.
RECURSIVE Reduce(_, _)
Reduce(q, best) ==
    IF q = <<>> THEN best ELSE Reduce(Tail(q), KeepBetter(best, Head(q)))

\* The results a trial can have: the two means of lines 103-104, which
\* are NaN together.
TrialResults ==
    {<<RInt(r), RInt(t)>> : r \in 0..1, t \in 0..2} \cup {<<NaN, NaN>>}

InitReduce ==
    /\ \E n \in 1..MaxTrials : trial_results \in [1..n -> TrialResults]
    /\ merged = 0
    /\ merge_best = <<Inf, Inf>>
    /\ SyncIdle
    /\ TimeoutIdle
    /\ ImageIdle
    /\ apc = "idle"
    /\ aTi_list_ref = <<>>
    /\ bTi_list_est = <<>>
    /\ num_iters = 0
    /\ delete_frac = 0
    /\ valid_idxs = <<>>
    /\ num_to_delete = 0
    /\ iter = 0
    /\ aTi_list_ref_subset = <<>>
    /\ bTi_list_est_subset = <<>>
    /\ delete_idxs = {}
    /\ aligned_bTi_list_est = None
    /\ aSb = None
    /\ rot_error = NaN
    /\ trans_error = NaN
    /\ best_aligned_bTi_list_est = None
    /\ best_aSb = None
    /\ best_trans_error = Inf
    /\ best_rot_error = Inf
    /\ aret = None
    /\ ref0 = <<>>
    /\ est0 = <<>>
    /\ n_fits = 0
    /\ fit_in = None

\* Lines 61-67 for the next trial's result.
MergeNext ==
    /\ merged < Len(trial_results)
    /\ merge_best' = KeepBetter(merge_best, trial_results[merged + 1])
    /\ merged' = merged + 1
    /\ UNCHANGED trial_results
    /\ UNCHANGED <<syncVars, alignVars, timeoutVars, imageVars>>

NextReduce == MergeNext

SpecReduce == InitReduce /\ [][NextReduce]_vars

\* ------------------------------------------------------------------------
\* "with timeout(seconds=n)" (src/afp/utils/function_timeout.py).  The
\* program run is one block whose body sleeps, or a block whose body
\* sleeps, runs a nested block that sleeps, and sleeps again.  The process
\* has one SIGALRM handler and at most one pending alarm.

\* Largest enumerated seconds argument.
MaxSeconds == 5

\* The enumerated sleeps of a body, in seconds.
SleepTimes == {0, 1, 4, MaxSeconds + 1}

\* Line 26, signal.alarm(self.seconds) at time t: the pending alarm is
\* replaced by one n seconds ahead, and n = 0 schedules none.
ArmAlarm(t, n) == IF n = 0 THEN None ELSE Some(t + n)

\* Line 30, signal.alarm(0): any pending alarm is cancelled.
CancelAlarm == None

\* The position in work of the sleep being run.
Phase == CASE tpc = "pre" -> 1 [] tpc = "mid" -> 2 [] tpc = "post" -> 3 [] OTHER -> 0

InitTimeout ==
    /\ \E n \in 0..MaxSeconds, pre \in SleepTimes :
          \/ /\ seconds = <<n>>
             /\ work = <<pre, 0, 0>>
          \/ \E m \in 0..MaxSeconds, mid \in SleepTimes, post \in SleepTimes :
                /\ seconds = <<n, m>>
                /\ work = <<pre, mid, post>>
    /\ tpc = "start"
    /\ now = 0
    /\ alarm_at = None
    /\ handler = "SIG_DFL"
    /\ entered = <<>>
    /\ SyncIdle
    /\ AlignIdle
    /\ ImageIdle

\* Lines 24-26: __enter__ of the outer block.
EnterOuter ==
    /\ tpc = "start"
    /\ handler' = "handle_timeout"
    /\ alarm_at' = ArmAlarm(now, seconds[1])
    /\ entered' = <<now>>
    /\ tpc' = "pre"
    /\ UNCHANGED <<now, seconds, work>>
    /\ UNCHANGED <<syncVars, alignVars, reduceVars, imageVars>>

\* One second of a time.sleep of the body passes; a pending alarm is
\* delivered when its time comes, so the clock does not pass it.
Sleep ==
    /\ tpc \in {"pre", "mid", "post"}
    /\ work[Phase] > 0
    /\ IF alarm_at = None THEN TRUE ELSE now < alarm_at[1]
    /\ now' = now + 1
    /\ work' = [work EXCEPT ![Phase] = work[Phase] - 1]
    /\ UNCHANGED <<tpc, alarm_at, handler, seconds, entered>>
    /\ UNCHANGED <<syncVars, alignVars, reduceVars, imageVars>>

\* Lines 24-26: __enter__ of the nested block, after the first sleep.
EnterNested ==
    /\ tpc = "pre"
    /\ work[1] = 0
    /\ Len(seconds) = 2
    /\ handler' = "handle_timeout"
    /\ alarm_at' = ArmAlarm(now, seconds[2])
    /\ entered' = Append(entered, now)
    /\ tpc' = "mid"
    /\ UNCHANGED <<now, seconds, work>>
    /\ UNCHANGED <<syncVars, alignVars, reduceVars, imageVars>>

\* Lines 28-30: __exit__ of the nested block, its body having finished.
ExitNested ==
    /\ tpc = "mid"
    /\ work[2] = 0
    /\ alarm_at' = CancelAlarm
    /\ entered' = <<entered[1]>>
    /\ tpc' = "post"
    /\ UNCHANGED <<now, handler, seconds, work>>
    /\ UNCHANGED <<syncVars, alignVars, reduceVars, imageVars>>

\* Lines 28-30: __exit__ of the outer block, its body having finished.
ExitOuter ==
    /\ \/ tpc = "pre" /\ work[1] = 0 /\ Len(seconds) = 1
       \/ tpc = "post" /\ work[3] = 0
    /\ alarm_at' = CancelAlarm
    /\ entered' = <<>>
    /\ tpc' = "done"
    /\ UNCHANGED <<now, handler, seconds, work>>
    /\ UNCHANGED <<syncVars, alignVars, reduceVars, imageVars>>

\* Lines 20-22: SIGALRM is delivered and handle_timeout raises
\* TimeoutError in the running body; the exception leaves every block,
\* each __exit__ (line 30) cancelling the alarm.  entered keeps the entry
\* times of the blocks the exception left.
HandleTimeout ==
    /\ tpc \in {"pre", "mid", "post"}
    /\ handler = "handle_timeout"
    /\ alarm_at = Some(now)
    /\ alarm_at' = CancelAlarm
    /\ tpc' = "raised"
    /\ UNCHANGED <<now, handler, seconds, entered, work>>
    /\ UNCHANGED <<syncVars, alignVars, reduceVars, imageVars>>

NextTimeout ==
    \/ EnterOuter
    \/ Sleep
    \/ EnterNested
    \/ ExitNested
    \/ ExitOuter
    \/ HandleTimeout

SpecTimeout == InitTimeout /\ [][NextTimeout]_vars

\* ------------------------------------------------------------------------
\* remove_hallucinated_content (src/afp/utils/interpolation_utils.py, and
\* the same function in src/interp_artifact_removal.py).  An image is a
\* sequence of rows, a row a sequence of pixels, a pixel <<c0, c1, c2>>.

\* Size of the enumerated images.
MaxRows == 2

MaxCols == 3

\* Largest number of populated pixels of an enumerated sparse image.
MaxPixels == 2

\* The enumerated values of a populated sparse pixel: all channels equal,
\* one channel only, and three non-zero channels whose product is 256.
PixelValues == {<<2, 2, 2>>, <<255, 0, 0>>, <<16, 16, 1>>}

\* The enumerated kernel sizes.
KernelSizes == {1, 2, 3}

\* test_remove_hallucinated_content: one channel of its two images.
TestSparseSlice ==
    << <<0, 2, 0, 4, 0, 0>>,
       <<0, 0, 0, 0, 0, 0>>,
       <<0, 2, 0, 0, 0, 0>>,
       <<0, 0, 0, 0, 0, 0>>,
       <<0, 2, 0, 0, 0, 0>>,
       <<0, 0, 0, 0, 0, 0>> >>

TestInterpSlice == [r \in 1..6 |-> <<1, 2, 3, 4, 5, 6>>]

\* np.stack([img, img, img], axis=-1)
Stacked(slice) ==
    [r \in 1..Len(slice) |-> [c \in 1..Len(slice[r]) |->
        <<slice[r][c], slice[r][c], slice[r][c]>>]]

\* The value of every channel of the enumerated interpolated image.
InterpValue(r, c) == 10 * (r - 1) + c

\* Line 170: the product of the three channels, in the array's dtype.
ChannelProduct(px, dtype) ==
    IF dtype = "uint8" THEN (((px[1] * px[2]) % 256) * px[3]) % 256
    ELSE px[1] * px[2] * px[3]

\* Lines 170-173: 1 where the product is > 0, else 0.
Nonempty(sparse, dtype) ==
    [r \in 1..Len(sparse) |-> [c \in 1..Len(sparse[r]) |->
        IF ChannelProduct(sparse[r][c], dtype) > 0 THEN 1 ELSE 0]]

RECURSIVE SumOver(_, _)
SumOver(S, f) ==
    IF S = {} THEN 0
    ELSE LET x == CHOOSE y \in S : TRUE IN f[x] + SumOver(S \ {x}, f)

\* Line 184, F.conv2d with a KxK kernel of ones, stride 1 and zero padding
\* K // 2: the output at (r, c) sums the input over rows r - K // 2 + a and
\* columns c - K // 2 + b for a, b in 0..K-1.
Counts(ne, k, r, c) ==
    LET inside == {rc \in (1..Len(ne)) \X (1..Len(ne[1])) :
                      /\ rc[1] - r + (k \div 2) \in 0..(k - 1)
                      /\ rc[2] - c + (k \div 2) \in 0..(k - 1)}
    IN  SumOver(inside, [rc \in inside |-> ne[rc[1]][rc[2]]])

\* Lines 184-190: the convolution output has H + 2 (K // 2) - K + 1 rows,
\* so reshape(H, W) fails for an even K.
ReshapeFails(k) == 2 * (k \div 2) - k + 1 # 0

\* Lines 167-197: the returned image.
remove_hallucinated_content(sparse, interp, k, dtype) ==
    LET ne == Nonempty(sparse, dtype)
    IN  [r \in 1..Len(interp) |-> [c \in 1..Len(interp[r]) |->
            [ch \in 1..3 |->
                IF Counts(ne, k, r, c) > 0 THEN interp[r][c][ch] % 256 ELSE 0]]]

\* A call on a sparse image with up to MaxPixels populated pixels, or the
\* call of test_remove_hallucinated_content.
InitImage ==
    /\ \/ /\ \E P \in SUBSET ((1..MaxRows) \X (1..MaxCols)) :
                /\ Cardinality(P) <= MaxPixels
                /\ \E val \in [P -> PixelValues] :
                      sparse_bev_img =
                          [r \in 1..MaxRows |-> [c \in 1..MaxCols |->
                              IF <<r, c>> \in P THEN val[<<r, c>>] ELSE <<0, 0, 0>>]]
          /\ interp_bev_img =
                [r \in 1..MaxRows |-> [c \in 1..MaxCols |->
                    <<InterpValue(r, c), InterpValue(r, c), InterpValue(r, c)>>]]
          /\ K_sz \in KernelSizes
          /\ sparse_dtype \in {"uint8", "int64"}
       \/ /\ sparse_bev_img = Stacked(TestSparseSlice)
          /\ interp_bev_img = Stacked(TestInterpSlice)
          /\ K_sz = 3
          /\ sparse_dtype = "int64"
    /\ ipc = "start"
    /\ unhalluc_img = None
    /\ SyncIdle
    /\ AlignIdle
    /\ TimeoutIdle

\* Lines 167-197, the whole call.
RemoveHallucinated ==
    /\ ipc = "start"
    /\ IF ReshapeFails(K_sz)
       THEN /\ ipc' = "raised"
            /\ unhalluc_img' = None
       ELSE /\ ipc' = "done"
            /\ unhalluc_img' = Some(remove_hallucinated_content(
                                   sparse_bev_img, interp_bev_img, K_sz, sparse_dtype))
    /\ UNCHANGED <<sparse_bev_img, interp_bev_img, K_sz, sparse_dtype>>
    /\ UNCHANGED <<syncVars, alignVars, reduceVars, timeoutVars>>

NextImage == RemoveHallucinated

SpecImage == InitImage /\ [][NextImage]_vars

\* ------------------------------------------------------------------------
\* A whole synchronizer call as a function of the dictionary (keys in
\* insertion order es, values d), for comparing calls on different inputs.

\* Lines 53-63 / 107-117: the pose accumulated along the path p from pair i on.
RECURSIVE PoseAlong(_, _, _, _, _)
PoseAlong(f, d, p, i, acc) ==
    IF i >= Len(p) THEN acc
    ELSE PoseAlong(f, d, p, i + 1,
                   IF f = "R" THEN MatMul(acc, EdgeRot(d, p[i], p[i + 1]))
                   ELSE Sim2Compose(acc, EdgeSim2(d, p[i], p[i + 1])))

\* Lines 34-67 / 85-121 on a non-empty dictionary: the returned list.
greedily_construct(f, es, d) ==
    LET cc == SortedCC(es)
        origin == OriginOf(cc)
        first == InitialList(f, NumNodes(es), origin)
    IN  [i \in 1..NumNodes(es) |->
            IF \E j \in 2..Len(cc) : cc[j] = i - 1
            THEN Some(PoseAlong(f, d, shortest_path(es, origin, i - 1), 1,
                                FreshPose(f, Identity(f))))
            ELSE first[i]]

\* ------------------------------------------------------------------------
\* Graph notions the properties are stated with, defined on the edge set
\* alone (no traversal order).

NodesOf(es) == UNION {{e[1], e[2]} : e \in Range(es)}

\* The connected components: for each node, the nodes joined to it.
ComponentSets(es) == {Grow(es, {v}) : v \in NodesOf(es)}

LargestComponents(es) ==
    {S \in ComponentSets(es) :
        \A T \in ComponentSets(es) : Cardinality(T) <= Cardinality(S)}

\* Connected and acyclic: exactly one simple path between every two nodes.
IsTree(es) ==
    /\ Len(es) > 0
    /\ NodesOf(es) \in ComponentSets(es)
    /\ Len(es) = Cardinality(NodesOf(es)) - 1

\* The node ids that hold a pose in the list l.
Posed(l) == {i \in 0..(Len(l) - 1) : l[i + 1] # None}

Returned == pc = "done" /\ ret # None

\* ------------------------------------------------------------------------
\* C1: after the synchronizer returns for a non-empty edge set, the node
\* ids of a largest connected component C each hold exactly one pose in
\* the returned list, and every other index of the list is null.
C1_PosesExactlyOnComponent ==
    (pc = "done" /\ Len(edges) > 0) =>
        /\ ret # None
        /\ Range(cc_nodes) \in LargestComponents(edges)
        /\ \A i \in 0..(Len(ret[1]) - 1) :
              IF i \in Range(cc_nodes)
              THEN Len(ret[1][i + 1]) = 1
              ELSE ret[1][i + 1] = None
        /\ Range(cc_nodes) \subseteq 0..(Len(ret[1]) - 1)

\* C1 witness: a call returned with three nodes posed and both a node of
\* a smaller component and a node of no edge left null.
C1_Witness ==
    /\ Returned
    /\ Cardinality(Posed(ret[1])) = 3
    /\ \E i \in NodesOf(edges) : ret[1][i + 1] = None
    /\ \E i \in 0..(Len(ret[1]) - 1) : i \notin NodesOf(edges)

\* The transform the walk is said to take for the pair (a, b): rule "inv_up"
\* inverts the stored transform when a < b, rule "inv_down" when a > b.
StepTaken(f, d, a, b, rule) ==
    LET stored == d[<<Min({a, b}), Max({a, b})>>]
        inverted == IF f = "R" THEN Transpose(stored) ELSE Sim2Inverse(stored)
    IN  IF (a < b) = (rule = "inv_up") THEN inverted ELSE stored

\* The composition, from identity and in path order, of the first n pairs of p.
RECURSIVE Composed(_, _, _, _, _)
Composed(f, d, p, n, rule) ==
    IF n = 0 THEN (IF f = "R" THEN Eye2 ELSE Sim2(Eye2, Zeros2, RInt(1)))
    ELSE LET before == Composed(f, d, p, n - 1, rule)
             step == StepTaken(f, d, p[n], p[n + 1], rule)
         IN  IF f = "R" THEN MatMul(before, step) ELSE Sim2Compose(before, step)

WalkFollows(rule) ==
    /\ pc = "walk" =>
          /\ path[1] = origin_node
          /\ path[Len(path)] = cc_nodes[dst_idx]
          /\ wSi = Composed(fn, i2Si1_dict, path, path_pos - 1, rule)
    /\ Returned =>
          \A j \in 2..Len(cc_nodes) :
              LET p == shortest_path(edges, origin_node, cc_nodes[j])
              IN  ret[1][cc_nodes[j] + 1] =
                      Some(Composed(fn, i2Si1_dict, p, Len(p) - 1, rule))

\* C2 (as amended): walking the path from the origin to d, for each
\* consecutive pair (a, b) the synchronizer takes the transform stored
\* under (min(a,b), max(a,b)) inverted if a < b and unchanged if a > b, and
\* composes these in path order from identity to obtain d's pose.
C2_InverseWhenAscending == WalkFollows("inv_up")

\* C2 as claimed: the stored transform unchanged if a < b, inverted if a > b.
C2_AsClaimed == WalkFollows("inv_down")

\* C2 witness: a walk has finished a path that holds an ascending and a
\* descending pair, with a pose that is not the identity.
C2_Witness ==
    /\ pc = "walk"
    /\ path_pos = Len(path)
    /\ \E i \in 1..(Len(path) - 1) : path[i] < path[i + 1]
    /\ \E i \in 1..(Len(path) - 1) : path[i] > path[i + 1]
    /\ wSi # Identity(fn)

Rot90s == {rotmat2d(0), rotmat2d(90), rotmat2d(180), rotmat2d(270)}

\* C3: for a tree-shaped edge set whose stored rotation for each edge
\* (i1, i2) is wR_i2^T * wR_i1 for ground-truth rotations wR with the
\* identity at the smallest node, greedily_construct_st returns exactly
\* wR_i for every node i.
C3_TreeRecoversGroundTruth ==
    (fn = "R" /\ pc = "done" /\ call = 1 /\ IsTree(edges)) =>
        LET smallest == Min(NodesOf(edges))
        IN  \A others \in [NodesOf(edges) \ {smallest} -> Rot90s] :
                LET wR == (smallest :> Eye2) @@ others
                IN  (\A k \in Range(edges) :
                        i2Si1_dict[k] = MatMul(Transpose(wR[k[2]]), wR[k[1]]))
                    => \A i \in NodesOf(edges) : ret[1][i + 1] = Some(wR[i])

\* C3 witness: test_greedily_construct_st2's dictionary, returned as the
\* rotations of 0, 90, 90, 0, 0 degrees.
C3_Witness ==
    /\ fn = "R"
    /\ pc = "done"
    /\ edges = Test2Keys
    /\ i2Si1_dict = [k \in Range(Test2Keys) |-> RelRot(Test2Deg, k)]
    /\ ret = Some([i \in 1..5 |-> Some(rotmat2d(Test2Deg[i]))])

\* C4: the origin is the smallest node id of the largest connected
\* component C the call works on, it holds the identity pose (identity
\* rotation, zero translation, scale 1), and every path starts at it.
C4_OriginIsSmallestOfComponent ==
    (pc \in {"loop", "walk", "done"} /\ Len(edges) > 0) =>
        /\ pc = "done" => Range(cc_nodes) \in LargestComponents(edges)
        /\ origin_node = Min(Range(cc_nodes))
        /\ wSi_list[origin_node + 1] =
              Some(IF fn = "R" THEN <<1, 0, 0, 1>>
                   ELSE [R |-> <<1, 0, 0, 1>>, t |-> <<<<0, 1>>, <<0, 1>>>>, s |-> <<1, 1>>])
        /\ pc = "walk" => path[1] = origin_node

\* C4 witness: a call returned whose component does not hold node 0 and
\* has poses other than the origin's.
C4_Witness ==
    /\ Returned
    /\ origin_node > 0
    /\ Cardinality(Posed(ret[1])) >= 3

\* C5 (as claimed): on an empty edge set every entry point returns a null
\* result and does not raise.
C5_EmptyReturnsNull ==
    Len(edges) = 0 => (pc # "raised" /\ (pc = "done" => ret = None))

\* C6: for a tree-shaped edge set the returned list is the same for every
\* order in which the edges were inserted into the dictionary.
C6_TreeOrderInvariant ==
    (pc = "done" /\ call = 1 /\ IsTree(edges)) =>
        \A es \in InsertionOrders(Range(edges)) :
            ret = Some(greedily_construct(fn, es, i2Si1_dict))

\* C6 witness: a call returned on a tree of three edges whose keys were
\* not inserted in ascending order.
C6_Witness ==
    /\ Returned
    /\ IsTree(edges)
    /\ Len(edges) >= 3
    /\ edges[1][1] > edges[2][1]
    /\ \E i \in Posed(ret[1]) : ret[1][i + 1] # Some(Identity(fn))

\* C7: two calls of the synchronizer on the same edge dictionary return
\* identical pose lists: the second call, which starts with fresh locals
\* and is handed the dictionary as the first call left it, returns what
\* the first call returned.
C7_RepeatCallIdentical ==
    (pc = "done" /\ call = 2) => ret = first_ret

\* C7 witness: the repeated call returned a list with poses other than
\* the identity.
C7_Witness ==
    /\ Returned
    /\ call = 2
    /\ Cardinality(Posed(ret[1])) >= 3
    /\ \E i \in Posed(ret[1]) : ret[1][i + 1] # Some(Identity(fn))

\* The position of the first key, in insertion order, that joins nodes of
\* a largest component.
FirstLargestKey(es) ==
    Min({i \in DOMAIN es : es[i][1] \in UNION LargestComponents(es)})

\* C8 (as amended): when several connected components have the same
\* maximal size, the synchronizer works on the one whose edge comes first
\* in the dictionary's insertion order; the origin is that component's
\* smallest node id.
C8_FirstInsertedLargest ==
    (pc = "done" /\ Len(edges) > 0) =>
        /\ edges[FirstLargestKey(edges)][1] \in Range(cc_nodes)
        /\ Range(cc_nodes) \in LargestComponents(edges)
        /\ origin_node = Min(Range(cc_nodes))

\* C8 as claimed: the origin is the smallest node id over all the largest
\* components.
C8_AsClaimed ==
    (pc = "done" /\ Len(edges) > 0) =>
        origin_node = Min(UNION LargestComponents(edges))

\* C8 witness: a call returned on a graph with two largest components,
\* having worked on the one that does not hold the smallest node id.
C8_Witness ==
    /\ Returned
    /\ Cardinality(LargestComponents(edges)) >= 2
    /\ origin_node # Min(UNION LargestComponents(edges))

\* V, the indices where the caller's estimate is present, and
\* k = ceil(delete_frac * |V|), computed from the call's arguments.
V == {i \in 0..(Len(est0) - 1) : est0[i + 1] # <<>>}

K == (delete_frac * Cardinality(V) + 99) \div 100

\* C9: whenever |V| - k <= 3 the aligner performs one direct fit on the
\* unmodified inputs and returns it, and the RANSAC loop body is never
\* executed, for any num_iters. The call ends with that fit: by returning
\* what it returned, or with the exception it raised.
C9_DirectFitWhenFewValid ==
    (apc # "idle" /\ Cardinality(V) - K <= 3) =>
        /\ apc \in {"start", "direct", "done", "raised"}
        /\ iter = 0
        /\ apc \in {"done", "raised"} =>
              /\ n_fits = 1
              /\ fit_in = Some(<<ref0, est0>>)
        /\ apc = "done" =>
              /\ aret = Some(<<aligned_bTi_list_est, aSb>>)
              /\ aSb # None
              /\ Present(aligned_bTi_list_est[1]) = V

\* C9 witness: a call with exactly 3 present estimate entries (indices 1,
\* 2, 3 of 5, as in the unit test), delete_frac = 0.33 and num_iters > 0
\* has returned.
C9_Witness ==
    /\ apc = "done"
    /\ V = {1, 2, 3}
    /\ delete_frac = DEFAULT_DELETE_FRAC
    /\ num_iters > 0
    /\ aret # None

\* C10: in every RANSAC trial, at the moment of the fit the trial's
\* estimate copy is present at exactly V minus k distinct indices sampled
\* from V, with the caller's poses there, and the trial's reference copy
\* equals the original reference, whatever earlier trials deleted.
C10_TrialWorksOnFreshCopies ==
    apc = "deleted" =>
        /\ delete_idxs \subseteq V
        /\ Cardinality(delete_idxs) = K
        /\ Present(bTi_list_est_subset) = V \ delete_idxs
        /\ Cardinality(Present(bTi_list_est_subset)) = Cardinality(V) - K
        /\ \A i \in Present(bTi_list_est_subset) : bTi_list_est_subset[i + 1] = est0[i + 1]
        /\ Len(bTi_list_est_subset) = Len(est0)
        /\ aTi_list_ref_subset = ref0

\* C10 witness: the second trial is about to fit with an index present
\* that the first trial had deleted.
C10_Witness ==
    /\ apc = "deleted"
    /\ iter = 2
    /\ K >= 1
    /\ best_aligned_bTi_list_est # None
    /\ \E i \in V :
          /\ best_aligned_bTi_list_est[1][i + 1] = None
          /\ bTi_list_est_subset[i + 1] # None

\* The call took the RANSAC path of lines 43-69 (line 35 was false).
LoopPath == Cardinality(V) - K > 3

\* C11: in the RANSAC loop a trial's candidate replaces the current best
\* if and only if its translation error <= the best translation error and
\* its rotation error <= the best rotation error (both +infinity before
\* the first trial); when the condition fails, the best aligned list, the
\* best transform and both best errors are left unchanged.
C11_AcceptIffBothAtMostBest ==
    /\ []((apc = "loop" /\ iter = 0) =>
             (best_trans_error = <<1, 0>> /\ best_rot_error = <<1, 0>>))
    /\ [][(apc = "scored" /\ apc' = "loop") =>
             IF /\ LessEq(trans_error, best_trans_error)
                /\ LessEq(rot_error, best_rot_error)
             THEN /\ best_aligned_bTi_list_est' = aligned_bTi_list_est
                  /\ best_aSb' = aSb
                  /\ best_trans_error' = trans_error
                  /\ best_rot_error' = rot_error
             ELSE /\ best_aligned_bTi_list_est' = best_aligned_bTi_list_est
                  /\ best_aSb' = best_aSb
                  /\ best_trans_error' = best_trans_error
                  /\ best_rot_error' = best_rot_error]_vars

\* C11 witness: the second trial has been rejected although its rotation
\* error is smaller than the best one, its translation error being larger.
C11_Witness ==
    /\ apc = "loop"
    /\ iter = 2
    /\ best_aligned_bTi_list_est # None
    /\ best_aligned_bTi_list_est # aligned_bTi_list_est
    /\ LessEq(rot_error, best_rot_error)
    /\ rot_error # best_rot_error
    /\ ~LessEq(trans_error, best_trans_error)

\* C13: the aligner returns the best aligned list together with the
\* transform of the same trial (the list is the estimate moved by that
\* transform, and it has the best errors), or the pair (None, None) when no
\* trial was accepted: with num_iters = 0 on the RANSAC path, or with NaN
\* errors.
C13_BestPairOrNoResult ==
    apc = "done" =>
        /\ aret # None
        /\ \/ /\ aret[1] = <<None, None>>
              /\ LoopPath
              /\ best_rot_error = Inf /\ best_trans_error = Inf
              /\ num_iters = 0 \/ rot_error = NaN \/ trans_error = NaN
           \/ /\ aret[1][1] # None
              /\ aret[1][2] # None
              /\ \E D \in SUBSET V :
                    /\ Cardinality(D) = (IF LoopPath THEN K ELSE 0)
                    /\ aret[1][1][1] = AlignedBy(aret[1][2][1], DeletedAt(est0, D))
              /\ LoopPath =>
                    compute_pose_errors_3d(ref0, aret[1][1][1])
                        = <<best_rot_error, best_trans_error>>
        /\ (LoopPath /\ num_iters = 0) => aret[1] = <<None, None>>
        /\ (LoopPath /\ best_rot_error # Inf) => aret[1][1] # None

\* C13 witness: a call returned after two trials with the transform of
\* the first, the second trial having fitted another one.
C13_Witness ==
    /\ apc = "done"
    /\ iter = 2
    /\ aret[1][2] # None
    /\ aret[1][2] # aSb
    /\ aret[1][1] # aligned_bTi_list_est

\* C14: the aligner never mutates its inputs: on the direct and on the
\* RANSAC path, for any number of trials, the caller's reference and
\* estimate lists have the same length and the same entry at every index
\* as before the call.
C14_InputsNotMutated ==
    apc # "idle" =>
        /\ Len(aTi_list_ref) = Len(ref0)
        /\ Len(bTi_list_est) = Len(est0)
        /\ Present(aTi_list_ref) = Present(ref0)
        /\ Present(bTi_list_est) = Present(est0)
        /\ aTi_list_ref = ref0
        /\ bTi_list_est = est0

\* C14 witness: a call returned after two trials that each set entries of
\* the working copy to None.
C14_Witness ==
    /\ apc = "done"
    /\ iter = 2
    /\ delete_idxs # {}
    /\ aret[1][1] # None
    /\ Present(aret[1][1][1]) # Present(bTi_list_est)

\* The indices (from 0) at which both lists hold a pose.
JointIdxs(gt, al) == Present(gt) \cap Present(al)

\* The sum over the index set S of the per-index errors.
RECURSIVE ErrorSum(_, _, _, _)
ErrorSum(S, gt, al, what) ==
    IF S = {} THEN 0
    ELSE LET i == CHOOSE x \in S : TRUE
         IN  (IF what = "rot" THEN Abs(gt[i + 1][1].rot - al[i + 1][1].rot)
              ELSE Abs(gt[i + 1][1].trans - al[i + 1][1].trans))
             + ErrorSum(S \ {i}, gt, al, what)

\* The mean over the indices present in both lists, NaN when there is none.
JointMean(gt, al, what) ==
    IF JointIdxs(gt, al) = {} THEN <<0, 0>>
    ELSE RatNorm(ErrorSum(JointIdxs(gt, al), gt, al, what),
                 Cardinality(JointIdxs(gt, al)))

\* C15: compute_pose_errors_3d returns, for rotation and for translation,
\* the arithmetic mean of the per-index errors over exactly the indices at
\* which both the reference and the aligned estimate are present; an index
\* absent in either list contributes nothing, and the result is NaN when
\* no index is present in both.
C15_MeanOverJointIndices ==
    apc = "scored" =>
        /\ rot_error = JointMean(aTi_list_ref, aligned_bTi_list_est[1], "rot")
        /\ trans_error = JointMean(aTi_list_ref, aligned_bTi_list_est[1], "trans")
        /\ <<rot_error, trans_error>>
              = compute_pose_errors_3d(aTi_list_ref, aligned_bTi_list_est[1])

\* C15 witness: a candidate was scored with a nonzero rotation error over
\* lists in which one index is absent in the reference only and another in
\* the aligned estimate only.
C15_Witness ==
    /\ apc = "scored"
    /\ Len(aTi_list_ref) = Len(aligned_bTi_list_est[1])
    /\ Present(aligned_bTi_list_est[1]) \ Present(aTi_list_ref) # {}
    /\ Present(aTi_list_ref) \ Present(aligned_bTi_list_est[1]) # {}
    /\ rot_error # NaN
    /\ rot_error # <<0, 1>>

\* The orders in which the trials of q can be processed.
Orders(q) ==
    {[i \in 1..Len(q) |-> q[p[i]]] :
        p \in {f \in [1..Len(q) -> 1..Len(q)] : \A i, j \in 1..Len(q) : f[i] = f[j] => i = j}}

\* The best errors when the trials of q are processed as two parts, after
\* the first n trials, and the two partial bests merged by the same rule.
MergedInParts(q, n) ==
    KeepBetter(Reduce(SubSeq(q, 1, n), <<Inf, Inf>>),
               Reduce(SubSeq(q, n + 1, Len(q)), <<Inf, Inf>>))

\* The result m has no NaN and each of its errors is <= that of every
\* NaN-free result of q.
Dominates(m, q) ==
    /\ m[1] # NaN /\ m[2] # NaN
    /\ \A i \in 1..Len(q) :
          (q[i][1] # NaN /\ q[i][2] # NaN) =>
              (LessEq(m[1], q[i][1]) /\ LessEq(m[2], q[i][2]))

\* C12 (as amended): the reduction depends on the order in general; for a
\* fixed multiset of trial results that holds a result whose two errors
\* are each <= those of every other NaN-free result, the best errors
\* selected by the acceptance rule are that result's, whatever the order
\* in which the trials are processed or partial bests are merged.
C12_DominatingResultWinsInAnyOrder ==
    merged = Len(trial_results) =>
        \A i \in 1..Len(trial_results) :
            Dominates(trial_results[i], trial_results) =>
                /\ merge_best = trial_results[i]
                /\ \A q \in Orders(trial_results) :
                      /\ Reduce(q, <<Inf, Inf>>) = trial_results[i]
                      /\ \A n \in 0..Len(q) : MergedInParts(q, n) = trial_results[i]

\* C12 as claimed: for any multiset of trial results the best selected is
\* the same whatever the order of processing or merging.
C12_AsClaimed ==
    merged = Len(trial_results) =>
        \A q \in Orders(trial_results) :
            /\ Reduce(q, <<Inf, Inf>>) = merge_best
            /\ \A n \in 0..Len(q) : MergedInParts(q, n) = merge_best

\* C12 witness: three trials were reduced, the last of them the one that
\* dominates, after two results neither of which is <= the other in both
\* errors and after which the first was the best.
C12_Witness ==
    /\ merged = 3
    /\ Len(trial_results) = 3
    /\ Dominates(trial_results[3], trial_results)
    /\ merge_best = trial_results[3]
    /\ ~Accepts(trial_results[2][1], trial_results[2][2],
                trial_results[1][1], trial_results[1][2])
    /\ ~Accepts(trial_results[1][1], trial_results[1][2],
                trial_results[2][1], trial_results[2][2])
    /\ trial_results[1][1] # NaN
    /\ trial_results[2][1] # NaN

\* C16 (as claimed): if the reference and estimate lists have different
\* lengths, the aligner and the error metric fail before any other work is
\* done: no copy, sampling, fit result or scoring takes place and no
\* result is returned.
C16_MismatchFatalBeforeWork ==
    (apc # "idle" /\ Len(ref0) # Len(est0)) =>
        /\ apc \in {"start", "direct", "loop", "raised"}
        /\ iter = 0
        /\ aret = None

\* The indices present in both of the caller's lists before any deletion.
JointBefore == Present(ref0) \cap Present(est0)

\* C17 (as amended): the aligner makes no check of the number of indices
\* present in both lists and has no InsufficientData error. With fewer
\* than 3 such indices it proceeds as for any input: when |V| - k <= 3 it
\* performs the direct fit on the unmodified inputs and ends with what
\* that fit returned or raised; otherwise it runs the RANSAC trials, one
\* fit in each.
C17_FewJointPairsStillFitted ==
    (apc # "idle" /\ Cardinality(JointBefore) < 3) =>
        /\ apc = "raised" => n_fits >= 1
        /\ (~LoopPath /\ apc \in {"done", "raised"}) =>
              /\ n_fits = 1
              /\ fit_in = Some(<<ref0, est0>>)
        /\ (~LoopPath /\ apc = "done") =>
              /\ aret = Some(<<aligned_bTi_list_est, aSb>>)
              /\ aSb # None
        /\ (LoopPath /\ apc \in {"loop", "done"}) => n_fits = iter
        /\ (LoopPath /\ apc = "done") => iter = num_iters

\* C17 as claimed: with fewer than 3 indices present in both lists the
\* aligner fails fast and performs no fit.
C17_AsClaimed ==
    (apc # "idle" /\ Cardinality(JointBefore) < 3) =>
        (n_fits = 0 /\ aret = None /\ apc # "done")

\* C17 witness: a call with two indices present in both lists returned
\* the result of the direct fit.
C17_Witness ==
    /\ apc = "done"
    /\ Cardinality(JointBefore) = 2
    /\ Cardinality(V) >= 2
    /\ n_fits = 1
    /\ aret[1][1] # None
    /\ aret[1][2] # None

\* The fit of the current trial failed as degenerate: the translation of
\* the transform it returned is NaN.
TrialFitFailed == aSb # None /\ TransIsNaN(aSb[1])

\* C18: when the closed-form fit of a RANSAC trial fails as geometrically
\* degenerate, the trial is discarded: it is scored with a NaN translation
\* error, it leaves the best list, transform and errors as they were, and
\* the loop goes on to the next trial (or to the return after the last).
C18_DegenerateTrialDiscarded ==
    [][(apc \in {"fitted", "scored"} /\ iter >= 1 /\ TrialFitFailed) =>
          /\ apc' \in {"scored", "loop"}
          /\ apc' = "scored" => trans_error' = NaN
          /\ iter' = iter
          /\ <<best_aligned_bTi_list_est, best_aSb, best_trans_error, best_rot_error>>' =
             <<best_aligned_bTi_list_est, best_aSb, best_trans_error, best_rot_error>>]_vars

\* C18 witness: the second trial is under way after a first trial whose
\* fit was degenerate, and nothing was kept as the best.
C18_Witness ==
    /\ apc = "deleted"
    /\ iter = 2
    /\ TrialFitFailed
    /\ best_aSb = None
    /\ best_aligned_bTi_list_est = None
    /\ best_trans_error = Inf

\* The Sim(2) transforms of a synchronizer state: the dictionary's values
\* and the poses of the list.
Sim2sOfState ==
    {i2Si1_dict[k] : k \in Range(edges)}
        \cup {wSi_list[i][1] : i \in {j \in 1..Len(wSi_list) : wSi_list[j] # None}}

\* compose as the claim words it: R = R1 R2, t = t1 + s1 R1 t2, s = s1 s2.
ComposeAsClaimed(S1, S2) ==
    Sim2(MatMul(S1.R, S2.R),
         VecAdd(S1.t, VecScale(S1.s, MatVec(S1.R, S2.t))),
         RMul(S1.s, S2.s))

\* C19 (as amended): for every similarity transform T = (R, t, s) with
\* s > 0, compose(T, invert(T)) and compose(invert(T), T) are the identity
\* transform (identity rotation, zero translation, scale 1), where
\* compose(T1, T2) has R = R1 R2, t = R1 t2 + t1 / s2, s = s1 s2 and
\* invert(T) = (R^T, -s R^T t, 1 / s).
C19_ComposeWithInverseIsIdentity ==
    (fn = "Sim2" /\ pc = "done" /\ call = 1) =>
        \A T \in Sim2sOfState :
            /\ T.s[1] > 0
            /\ Sim2Inverse(T) = [R |-> Transpose(T.R),
                                 t |-> VecNeg(MatVec(Transpose(T.R), VecScale(T.s, T.t))),
                                 s |-> RInv(T.s)]
            /\ Sim2Compose(T, Sim2Inverse(T))
                  = [R |-> <<1, 0, 0, 1>>, t |-> <<<<0, 1>>, <<0, 1>>>>, s |-> <<1, 1>>]
            /\ Sim2Compose(Sim2Inverse(T), T)
                  = [R |-> <<1, 0, 0, 1>>, t |-> <<<<0, 1>>, <<0, 1>>>>, s |-> <<1, 1>>]
            /\ \A U \in {i2Si1_dict[k] : k \in Range(edges)} :
                  Sim2Compose(T, U)
                      = [R |-> MatMul(T.R, U.R),
                         t |-> VecAdd(MatVec(T.R, U.t), VecScale(RInv(U.s), T.t)),
                         s |-> RMul(T.s, U.s)]

\* C19 as claimed: the composition of T with its inverse is the identity,
\* the composition being R = R1 R2, t = t1 + s1 R1 t2, s = s1 s2.
C19_AsClaimed ==
    (fn = "Sim2" /\ pc \in {"start", "done"} /\ call = 1) =>
        \A T \in Sim2sOfState :
            /\ Sim2Compose(T, Sim2Inverse(T)) = ComposeAsClaimed(T, Sim2Inverse(T))
            /\ ComposeAsClaimed(T, Sim2Inverse(T))
                  = [R |-> <<1, 0, 0, 1>>, t |-> <<<<0, 1>>, <<0, 1>>>>, s |-> <<1, 1>>]

\* C19 witness: a call returned a pose with a rotation, a translation and
\* a scale other than the identity's.
C19_Witness ==
    /\ fn = "Sim2"
    /\ pc = "done"
    /\ call = 1
    /\ \E T \in Sim2sOfState :
          /\ T.R # Eye2
          /\ T.t[1] # RInt(0) /\ T.t[2] # RInt(0)
          /\ T.s # RInt(1)

\* Coordinate c of the translation tr = [base, s, off]: base + s * off.
Coord(tr, c) == RAdd(tr.base[c], RMul(tr.s, tr.off[c]))

\* |v - (whole + frac)| <= 1 / k for a rational v, an integer whole, a
\* rational frac and a positive integer k.
WithinOneIn(k, v, whole, frac) ==
    LET d == RSub(RSub(v, RInt(whole)), frac)
    IN  Abs(d[1]) <= d[2] \div k

\* The values that lines 132-134 assert of a returned pair: the scale
\* within 1e-2 of 1.0 and the translations of indices 1 and 2 within 1e-3
\* of [50.0114, 0.0576, 0] and [-0.0114, 9.9424, 0].
TestValuesIn(pair) ==
    /\ pair[1] # None
    /\ pair[2] # None
    /\ WithinOneIn(100, pair[2][1].s, 1, RInt(0))
    /\ WithinOneIn(1000, Coord(pair[1][1][2][1].trans, 1), 50, <<114, 10000>>)
    /\ WithinOneIn(1000, Coord(pair[1][1][2][1].trans, 2), 0, <<576, 10000>>)
    /\ WithinOneIn(1000, Coord(pair[1][1][2][1].trans, 3), 0, RInt(0))
    /\ WithinOneIn(1000, Coord(pair[1][1][3][1].trans, 1), 0, <<-114, 10000>>)
    /\ WithinOneIn(1000, Coord(pair[1][1][3][1].trans, 2), 9, <<9424, 10000>>)
    /\ WithinOneIn(1000, Coord(pair[1][1][3][1].trans, 3), 0, RInt(0))

\* C20 (as claimed): for the 5-entry lists of the test, with indices 1, 2,
\* 3 present, reference translations [50,0,0], [0,10,0], [0,0,20] and
\* estimate translations [50.1,0,0], [0,9.9,0], [0,0,2000], the aligner
\* with the default delete_frac returns a transform of scale 1.0 within
\* 1e-2 and aligned translations at indices 1 and 2 within 1e-3 of
\* [50.0114, 0.0576, 0] and [-0.0114, 9.9424, 0].
C20_TestValuesReturned ==
    (apc = "done" /\ ref0 = TestRef /\ est0 = TestEst
        /\ delete_frac = DEFAULT_DELETE_FRAC) =>
        (aret # None /\ TestValuesIn(aret[1]))

\* The asserted values are those of the fit of indices 1 and 2 alone: a
\* call on the test's lists without the estimate of index 3 returns them.
FitWithoutOutlierGivesTestValues ==
    (apc = "done" /\ ref0 = TestRef /\ Present(est0) = {1, 2}) =>
        (aret # None /\ TestValuesIn(aret[1]))

\* The mean of the per-index errors over the index set S, NaN when S is
\* empty.
MeanOver(S, gt, al, what) ==
    IF S = {} THEN <<0, 0>>
    ELSE RatNorm(ErrorSum(S, gt, al, what), Cardinality(S))

\* C23: every RANSAC trial's candidate is scored against the original,
\* unmodified reference list (not a reduced copy), with the mean errors
\* taken over exactly the indices present in both the reference and the
\* candidate aligned estimate: the reference's present indices among
\* V minus the trial's deleted indices.
C23_ScoredAgainstOriginalReference ==
    (apc = "scored" /\ iter >= 1) =>
        LET cand == AlignedBy(aSb[1], DeletedAt(est0, delete_idxs))
            J == (V \ delete_idxs) \cap Present(ref0)
        IN  /\ aTi_list_ref = ref0
            /\ aligned_bTi_list_est = Some(cand)
            /\ JointIdxs(ref0, cand) = J
            /\ rot_error = MeanOver(J, ref0, cand, "rot")
            /\ trans_error = MeanOver(J, ref0, cand, "trans")

\* C23 witness: a trial was scored whose deleted indices are present in
\* the reference, with a translation error that differs from the mean over
\* all of V.
C23_Witness ==
    /\ apc = "scored"
    /\ iter >= 1
    /\ delete_idxs # {}
    /\ delete_idxs \subseteq Present(ref0)
    /\ V \subseteq Present(ref0)
    /\ trans_error # NaN
    /\ trans_error # MeanOver(V, ref0, AlignedBy(aSb[1], est0), "trans")

\* The result t has rotation error <= that of b and translation error <=
\* that of b, one of the two being strictly smaller.
StrictlyDominates(t, b) ==
    /\ LessEq(t[1], b[1])
    /\ LessEq(t[2], b[2])
    /\ t # b

\* C26: when the RANSAC loop ends with a non-null best, no executed trial
\* has rotation error <= the best's and translation error <= the best's
\* with at least one of the two strictly smaller, whatever the order of the
\* trials.
C26_BestNeverStrictlyDominated ==
    merged = Len(trial_results) =>
        /\ merge_best # <<Inf, Inf>> =>
              \A i \in 1..Len(trial_results) :
                  ~StrictlyDominates(trial_results[i], merge_best)
        /\ \A q \in Orders(trial_results) :
              Reduce(q, <<Inf, Inf>>) # <<Inf, Inf>> =>
                  \A i \in 1..Len(q) :
                      ~StrictlyDominates(q[i], Reduce(q, <<Inf, Inf>>))

\* C26 witness: three trials were reduced; the second replaced the first,
\* having a smaller translation error and the same rotation error, and the
\* third was rejected with a smaller rotation error and a larger
\* translation error than the best.
C26_Witness ==
    /\ merged = 3
    /\ Len(trial_results) = 3
    /\ merge_best = trial_results[2]
    /\ StrictlyDominates(trial_results[2], trial_results[1])
    /\ trial_results[2][1] = trial_results[1][1]
    /\ LessEq(trial_results[3][1], merge_best[1])
    /\ trial_results[3][1] # merge_best[1]
    /\ ~LessEq(trial_results[3][2], merge_best[2])
    /\ trial_results[3][2] # NaN

\* The four best values are those of lines 28-31.
BestAtInitialValues ==
    /\ best_aligned_bTi_list_est = None
    /\ best_aSb = None
    /\ best_rot_error = Inf
    /\ best_trans_error = Inf

\* The four best values are those of one trial: the list is the estimate
\* without that trial's deleted indices moved by the best transform, and
\* the two errors are that list's errors against the reference.
BestFromOneTrial ==
    /\ best_aligned_bTi_list_est # None
    /\ best_aSb # None
    /\ \E D \in SUBSET V :
          /\ Cardinality(D) = K
          /\ best_aligned_bTi_list_est[1] = AlignedBy(best_aSb[1], DeletedAt(est0, D))
    /\ compute_pose_errors_3d(ref0, best_aligned_bTi_list_est[1])
          = <<best_rot_error, best_trans_error>>

\* C27: across the sequence of RANSAC trials best_rot_error and
\* best_trans_error never increase, and after every trial the four best
\* values (aligned list, transform, rotation error, translation error) all
\* come from one and the same trial, or are all still at their initial
\* values.
C27_BestMonotoneAndFromOneTrial ==
    /\ [](apc = "loop" => (BestAtInitialValues \/ BestFromOneTrial))
    /\ [][/\ LessEq(best_rot_error', best_rot_error)
          /\ LessEq(best_trans_error', best_trans_error)
          /\ (apc = "scored" /\ apc' = "loop"
                /\ best_aligned_bTi_list_est' # best_aligned_bTi_list_est) =>
                 /\ best_aligned_bTi_list_est' = aligned_bTi_list_est
                 /\ best_aSb' = aSb
                 /\ best_rot_error' = rot_error
                 /\ best_trans_error' = trans_error]_vars

\* C27 witness: after two trials the best values are the first trial's,
\* the second having had a larger rotation error and another transform.
C27_Witness ==
    /\ apc = "loop"
    /\ iter = 2
    /\ BestFromOneTrial
    /\ best_aSb # aSb
    /\ LessEq(best_rot_error, rot_error)
    /\ best_rot_error # rot_error
    /\ LessEq(best_trans_error, trans_error)

\* C28: on the RANSAC path the aligned pose set that is returned is the
\* winning trial's candidate: it is absent at the k indices deleted in that
\* trial, so it has exactly |V| - k present entries rather than one per
\* present estimate, and the deleted indices did not contribute to the
\* winning score.
C28_ReturnedListLacksDeleted ==
    (apc = "done" /\ LoopPath /\ aret[1][1] # None) =>
        /\ Cardinality(Present(aret[1][1][1])) = Cardinality(V) - K
        /\ \E D \in SUBSET V :
              /\ Cardinality(D) = K
              /\ Present(aret[1][1][1]) = V \ D
              /\ \A i \in D : aret[1][1][1][i + 1] = None
              /\ \A i \in V \ D :
                    aret[1][1][1][i + 1]
                        = Some(Pose3(est0[i + 1][1].rot + aret[1][2][1].rot,
                                     est0[i + 1][1].trans + aret[1][2][1].trans))
              /\ best_rot_error
                    = MeanOver((V \ D) \cap Present(ref0), ref0, aret[1][1][1], "rot")
              /\ best_trans_error
                    = MeanOver((V \ D) \cap Present(ref0), ref0, aret[1][1][1], "trans")
        /\ K >= 1 => Present(aret[1][1][1]) # V

\* C28 witness: a call returned the first of two trials' candidates, which
\* lacks an index that the reference holds and that the second trial kept.
C28_Witness ==
    /\ apc = "done"
    /\ LoopPath
    /\ iter = 2
    /\ K >= 1
    /\ aret[1][1] # None
    /\ V \subseteq Present(ref0)
    /\ Present(aret[1][1][1]) # V \ delete_idxs
    /\ Cardinality(Present(aret[1][1][1])) = Cardinality(V) - 1

\* The smallest integer m with m >= pct / 100 * n.
CeilingOf(pct, n) ==
    CHOOSE m \in 0..n : 100 * m >= pct * n /\ 100 * (m - 1) < pct * n

\* C29: with the default delete_frac = 0.33 the aligner enters the RANSAC
\* loop if and only if at least 6 estimate entries are present: for |V|
\* from 0 to 5, |V| - ceil(0.33 |V|) <= 3 and the direct fit is used, and
\* for every |V| >= 6 it is > 3.
C29_LoopFromSixEntries ==
    (apc \in {"direct", "loop"} /\ delete_frac = DEFAULT_DELETE_FRAC) =>
        /\ valid_idxs = sorted(V)
        /\ num_to_delete = CeilingOf(33, Cardinality(V))
        /\ apc = "loop" <=> Cardinality(V) >= 6
        /\ Cardinality(V) <= 5 =>
              /\ Cardinality(V) - CeilingOf(33, Cardinality(V)) <= 3
              /\ apc = "direct"
        /\ Cardinality(V) >= 6 =>
              /\ Cardinality(V) - CeilingOf(33, Cardinality(V)) > 3
              /\ apc = "loop"

\* C29 witness: a call with the default delete_frac and exactly 6 present
\* estimate entries out of 8 is at the head of the RANSAC loop.
C29_Witness ==
    /\ apc = "loop"
    /\ delete_frac = DEFAULT_DELETE_FRAC
    /\ Cardinality(V) = 6
    /\ Len(est0) = 8
    /\ num_to_delete = 2

\* C30: the synchronizer's output list has length exactly 1 + the largest
\* node id that appears in any edge key: every node id up to that maximum
\* has an entry (pose or null), and an isolated node whose id is larger
\* than every node id in the edges has no entry at all.
C30_ListLengthIsMaxIdPlusOne ==
    (pc = "done" /\ Len(edges) > 0) =>
        /\ ret # None
        /\ Len(ret[1]) = 1 + Max(NodesOf(edges))
        /\ \A i \in 0..Max(NodesOf(edges)) :
              /\ i + 1 \in DOMAIN ret[1]
              /\ ret[1][i + 1] = None \/ Len(ret[1][i + 1]) = 1
              /\ i \notin NodesOf(edges) => ret[1][i + 1] = None
        /\ \A i \in Nodes :
              i > Max(NodesOf(edges)) => i + 1 \notin DOMAIN ret[1]

\* C30 witness: a call returned on edges that name neither the node id
\* MaxNode nor a smaller id below their largest one: the list ends at the
\* largest id named and holds null at the unnamed one.
C30_Witness ==
    /\ Returned
    /\ Max(NodesOf(edges)) < MaxNode
    /\ \E i \in 0..Max(NodesOf(edges)) : i \notin NodesOf(edges)
    /\ Len(ret[1]) = Max(NodesOf(edges)) + 1
    /\ Cardinality(Posed(ret[1])) >= 2

\* The pose of node d is the pose of the node before d on d's path
\* composed with the transform of the edge between the two.
ExtendsPredecessor(l, d) ==
    LET p == shortest_path(edges, origin_node, d)
        before == p[Len(p) - 1]
    IN  /\ l[before + 1] # None
        /\ l[d + 1] =
              Some(IF fn = "R"
                   THEN MatMul(l[before + 1][1], EdgeRot(i2Si1_dict, before, d))
                   ELSE Sim2Compose(l[before + 1][1], EdgeSim2(i2Si1_dict, before, d)))

\* The paths used for the nodes of cc_nodes form a tree rooted at the
\* origin: the path of the node before d on d's path is d's path without
\* its last node.
PathsFormTree ==
    \A j \in 2..Len(cc_nodes) :
        LET p == shortest_path(edges, origin_node, cc_nodes[j])
        IN  shortest_path(edges, origin_node, p[Len(p) - 1]) = SubSeq(p, 1, Len(p) - 1)

\* C24 (as claimed): the edges traversed by the paths the synchronizer
\* uses for all nodes of C form a tree rooted at the origin: for every
\* non-origin node d, the pose assigned to d equals the pose assigned to
\* the node that precedes d on d's path, composed with the single edge
\* transform between the two, also when the graph has cycles and the
\* measurements are noisy.
C24_PathsFormTreeFromOrigin ==
    (Returned /\ call = 1) =>
        /\ PathsFormTree
        /\ \A j \in 2..Len(cc_nodes) : ExtendsPredecessor(ret[1], cc_nodes[j])

\* The walks of n edges that start at node o.
RECURSIVE WalksFrom(_, _, _)
WalksFrom(es, o, n) ==
    IF n = 0 THEN {<<o>>}
    ELSE {Append(p, w) : <<p, w>> \in
             {pw \in WalksFrom(es, o, n - 1) \X NodesOf(es) :
                 pw[2] \in Range(Adj(es, pw[1][Len(pw[1])]))}}

\* Every shortest path from o to d: the walks to d with as few edges as
\* the path that the search returns.
AllShortestPaths(es, o, d) ==
    {p \in WalksFrom(es, o, Len(shortest_path(es, o, d)) - 1) : p[Len(p)] = d}

\* Every edge transform is the one between the ground-truth poses of its
\* two nodes.
NoiseFree ==
    \/ i2Si1_dict = [k \in Range(edges) |-> TableVal(fn, "gt", k)]
    \/ /\ fn = "R"
       /\ edges = Test2Keys
       /\ i2Si1_dict = [k \in Range(Test2Keys) |-> RelRot(Test2Deg, k)]

\* C25: on noise-free input, where every edge transform is consistent with
\* one set of ground-truth global poses, the synchronizer output does not
\* depend on which of several equal-length shortest paths from the origin
\* is chosen for a node, also when the graph has cycles: the pose of every
\* node is the composition along each of its shortest paths.
C25_TiesHarmlessWhenNoiseFree ==
    (pc = "done" /\ call = 1 /\ Len(edges) > 0 /\ NoiseFree) =>
        \A j \in 2..Len(cc_nodes) :
            \A q \in AllShortestPaths(edges, origin_node, cc_nodes[j]) :
                ret[1][cc_nodes[j] + 1]
                    = Some(PoseAlong(fn, i2Si1_dict, q, 1, Identity(fn)))

\* C25 witness: a call on noise-free Sim(2) measurements returned for a
\* graph with a cycle in which a node has two shortest paths from the
\* origin, with a pose other than the identity.
C25_Witness ==
    /\ Returned
    /\ call = 1
    /\ fn = "Sim2"
    /\ NoiseFree
    /\ \E j \in 2..Len(cc_nodes) :
          /\ Cardinality(AllShortestPaths(edges, origin_node, cc_nodes[j])) >= 2
          /\ ret[1][cc_nodes[j] + 1] # Some(Identity(fn))

\* The bodies being run: those of the blocks entered and not yet left.
Running == IF tpc \in {"pre", "mid", "post"} THEN 1..Len(entered) ELSE {}

\* C21 (as claimed): inside "with timeout(seconds=n)", a body that is
\* still running n seconds after entry is interrupted by a TimeoutError
\* (no body runs on past n seconds after its entry), and a body that
\* finishes in fewer than n seconds completes without any TimeoutError
\* being raised (a TimeoutError is raised only when a body it leaves has
\* run for its n seconds).
C21_TimeoutContract ==
    /\ \A i \in Running : now - entered[i] <= seconds[i]
    /\ tpc = "raised" =>
          \E i \in 1..Len(entered) : now - entered[i] >= seconds[i]

\* A single block with seconds >= 1 keeps the contract: its body never
\* runs past seconds after entry, a TimeoutError is raised exactly at
\* seconds after entry, and a body with a shorter sleep completes.
UnnestedPositiveTimeoutHolds ==
    (Len(seconds) = 1 /\ seconds[1] >= 1) =>
        /\ \A i \in Running : now - entered[i] <= seconds[1]
        /\ tpc = "raised" => now - entered[1] = seconds[1]
        /\ tpc = "done" => now <= seconds[1]

\* A sparse pixel carries signal when any of its channels is non-zero.
CarriesSignal(px) == px[1] # 0 \/ px[2] # 0 \/ px[3] # 0

\* The pixels of the image inside the K x K window centred on (r, c).
Window(img, k, r, c) ==
    {rc \in (1..Len(img)) \X (1..Len(img[1])) :
        /\ Abs(rc[1] - r) <= k \div 2
        /\ Abs(rc[2] - c) <= k \div 2}

\* C22 (as claimed): remove_hallucinated_content returns at each pixel the
\* interpolated value when at least one pixel of the sparse image inside
\* the KxK window centred on it (zero-padded at the image border) carries
\* signal, and 0 otherwise, where a sparse pixel carries signal when any
\* of its channels is populated (non-zero).
C22_MaskedWhereNoSignal ==
    ipc = "done" =>
        \A r \in 1..Len(interp_bev_img) : \A c \in 1..Len(interp_bev_img[r]) :
            unhalluc_img[1][r][c] =
                IF \E rc \in Window(sparse_bev_img, K_sz, r, c) :
                       CarriesSignal(sparse_bev_img[rc[1]][rc[2]])
                THEN interp_bev_img[r][c]
                ELSE <<0, 0, 0>>

\* The call of test_remove_hallucinated_content returns the expected
\* slice in every channel.
TestSliceReturned ==
    (ipc = "done" /\ sparse_bev_img = Stacked(TestSparseSlice)) =>
        unhalluc_img =
            Some(Stacked(<< <<1, 2, 3, 4, 5, 0>>,
                            <<1, 2, 3, 4, 5, 0>>,
                            <<1, 2, 3, 0, 0, 0>>,
                            <<1, 2, 3, 0, 0, 0>>,
                            <<1, 2, 3, 0, 0, 0>>,
                            <<1, 2, 3, 0, 0, 0>> >>))

\* With every populated pixel non-zero in all three channels and a product
\* that does not wrap, the function returns what C22 describes.
MaskedAsClaimedForGreyPixels ==
    (ipc = "done" /\
       \A r \in 1..Len(sparse_bev_img) : \A c \in 1..Len(sparse_bev_img[r]) :
           sparse_bev_img[r][c] \in {<<0, 0, 0>>, <<2, 2, 2>>, <<4, 4, 4>>})
    => C22_MaskedWhereNoSignal

====
